---- MODULE Spec2Model ----
(***************************************************************************)
(* Model of metanoia's SchemaBuilder: the annotation registry (_types,     *)
(* _enums), the annotation surface that writes it, and build(), which      *)
(* compiles the registry into a GraphQL schema.                            *)
(*                                                                         *)
(* JavaScript objects used as maps (Hash<T>) and the Map of enums keep     *)
(* their keys in insertion order; they are modelled as sequences of        *)
(* [k, v] entries so that iteration order is the program's.                *)
(***************************************************************************)
EXTENDS Integers, Sequences, FiniteSets, TLC

VARIABLES types, enums, result, builds, otherBuilder

vars == <<types, enums, result, builds, otherBuilder>>

(***************************************************************************)
(* Bounds of the exploration.                                              *)
(***************************************************************************)
MaxBuilds == 2

(***************************************************************************)
(* Insertion-ordered maps (JavaScript objects / Map).                      *)
(***************************************************************************)
EmptyHash == <<>>

HasKey(h, key) == \E i \in 1..Len(h) : h[i].k = key

Get(h, key) == h[CHOOSE i \in 1..Len(h) : h[i].k = key].v

Put(h, key, val) ==
  IF HasKey(h, key)
    THEN [i \in 1..Len(h) |-> IF h[i].k = key THEN [k |-> key, v |-> val] ELSE h[i]]
    ELSE Append(h, [k |-> key, v |-> val])

Keys(h) == {h[i].k : i \in 1..Len(h)}

KeySeq(h) == [i \in 1..Len(h) |-> h[i].k]

\* { ...p, ...c }
RECURSIVE Spread(_, _)
Spread(p, c) ==
  IF c = <<>> THEN p ELSE Spread(Put(p, Head(c).k, Head(c).v), Tail(c))

(***************************************************************************)
(* Values.  "undefined" stands for JavaScript's undefined in string slots. *)
(***************************************************************************)
Undefined == "undefined"
NoClass == "none"
NoKind == "none"
NoArgs == [set |-> FALSE, args |-> <<>>]
NoInterfaces == [set |-> FALSE, list |-> <<>>]

\* The classes of the program under annotation, their names and superclasses.
\* B extends A, D extends B; E extends a class expression without a name,
\* which itself extends A.
Classes == {"A", "B", "C", "D", "E", "Anonymous"}

\* class.name: empty for the anonymous class expression.
ClassName(c) == IF c = "Anonymous" THEN "" ELSE c

\* Object.getPrototypeOf(class): the superclass, or Function.prototype
\* (whose name is empty) for a class without an extends clause.
ClassParent(c) ==
  CASE c = "B" -> "A"
    [] c = "D" -> "B"
    [] c = "E" -> "Anonymous"
    [] c = "Anonymous" -> "A"
    [] OTHER -> NoClass

\* object.constructor.name for the receiver of a member decorator: the class
\* name for a prototype (instance member), "Function" for the class itself
\* (static member).
ConstructorName(c, static) == IF static THEN "Function" ELSE ClassName(c)

\* The enum objects of the program and their own members (name -> value).
EnumObjects == {"E1", "E2"}

EnumMembers(e) ==
  IF e = "E1" THEN <<[k |-> "a", v |-> "a"], [k |-> "b", v |-> "b"],
                     [k |-> "c", v |-> "c"], [k |-> "d", v |-> "d"]>>
  ELSE <<[k |-> "Default", v |-> "default"], [k |-> "Lower", v |-> "lower"],
         [k |-> "Upper", v |-> "upper"]>>

(***************************************************************************)
(* Deferred references (OutputType / InputType).                           *)
(***************************************************************************)
RefName(n) == [k |-> "string", name |-> n]
RefThunk(c) == [k |-> "thunk", cls |-> c]
RefEnum(e) == [k |-> "enumobj", obj |-> e]
RefDirect(node) == [k |-> "direct", node |-> node]

(***************************************************************************)
(* Schema nodes (the graphql library's type objects).                      *)
(***************************************************************************)
UndefinedNode == [k |-> "undefined"]
Named(kind, name) == [k |-> "named", kind |-> kind, name |-> name]
NonNull(t) == [k |-> "nonnull", of |-> t]
List(t) == [k |-> "list", of |-> t]
\* An object that is no graphql type but is handed to the library as one: `name`
\* is its own `name` property.
ForeignObject(e, name) == [k |-> "foreign", obj |-> e, name |-> name]

GraphQLString == Named("scalar", "String")
GraphQLBoolean == Named("scalar", "Boolean")

(***************************************************************************)
(* Registry records.                                                       *)
(***************************************************************************)
\* getOrAddType's fresh record: { name, fields: {}, queries: {}, ... }.
NewTypeInfo(name) ==
  [name |-> name, kind |-> NoKind, target |-> NoClass, description |-> Undefined,
   interfaces |-> NoInterfaces, fields |-> EmptyHash, queries |-> EmptyHash,
   mutations |-> EmptyHash, subscriptions |-> EmptyHash]

\* getOrAddField's fresh record: { name }.
NewFieldInfo(name) ==
  [k |-> "fieldinfo", name |-> name, hasType |-> FALSE, type |-> RefName(Undefined),
   args |-> NoArgs, resolver |-> Undefined, description |-> Undefined,
   list |-> FALSE, nonNull |-> FALSE, nonNullItems |-> FALSE]

\* A FieldInfo-shaped return type of an operation: { type, list, nonNull, nonNullItems }.
ReturnInfo(ref, list, nonNull, nonNullItems) ==
  [k |-> "fieldinfo", name |-> Undefined, hasType |-> TRUE, type |-> ref,
   args |-> NoArgs, resolver |-> Undefined, description |-> Undefined,
   list |-> list, nonNull |-> nonNull, nonNullItems |-> nonNullItems]

SomeArgs(h) == [set |-> TRUE, args |-> h]
SomeInterfaces(l) == [set |-> TRUE, list |-> l]

\* The lookup by the class's name instead of the record's owning class.
findByClassName(ts, target) ==
  IF HasKey(ts, ClassName(target))
    THEN [found |-> TRUE, info |-> Get(ts, ClassName(target))]
    ELSE [found |-> FALSE, info |-> NewTypeInfo(Undefined)]

findByClass(ts, target) ==
  IF \E i \in 1..Len(ts) : ts[i].v.target = target
    THEN [found |-> TRUE,
          info |-> ts[CHOOSE i \in 1..Len(ts) :
                        /\ ts[i].v.target = target
                        /\ \A j \in 1..(i - 1) : ts[j].v.target # target].v]
    ELSE [found |-> FALSE, info |-> NewTypeInfo(Undefined)]

\* The record created anew on every call, whether or not one exists.
getOrAddTypeAnew(ts, name) ==
  IF HasKey(ts, name) THEN Put(ts, name, NewTypeInfo(name))
  ELSE Append(ts, [k |-> name, v |-> NewTypeInfo(name)])

getOrAddType(ts, name) ==
  IF HasKey(ts, name) THEN ts ELSE Append(ts, [k |-> name, v |-> NewTypeInfo(name)])

getOrAddField(ts, typeName, name) ==
  LET ts1 == getOrAddType(ts, typeName)
      info == Get(ts1, typeName)
  IN IF HasKey(info.fields, name) THEN ts1
     ELSE Put(ts1, typeName,
              [info EXCEPT !.fields = Append(@, [k |-> name, v |-> NewFieldInfo(name)])])

hasType(ts, name) == HasKey(ts, name)

\* _enums is a Map keyed by the enum object: entries [k |-> object, v |-> EnumInfo].
hasEnum(es, e) == HasKey(es, e)

\* name.trim(), on the names the model uses.
Trim(name) ==
  CASE name = " E" -> "E"
    [] name = " " -> ""
    [] OTHER -> name

\* The name checked for presence only, not trimmed.
ValidEnumNameUntrimmed(name) == name # Undefined /\ name # ""

\* !(!name || !name.trim().length)
ValidEnumName(name) == name # Undefined /\ name # "" /\ Trim(name) # ""

\* Object.entries(_enum).map(([name, value]) => ({ [name]: { value } }))
EnumValueInfo(value) ==
  [value |-> value, description |-> Undefined, deprecationReason |-> Undefined]

\* No member of the enum object registered up front.
InitialEnumValuesNone(e) == <<>>

InitialEnumValues(e) ==
  [i \in 1..Len(EnumMembers(e)) |->
     [k |-> EnumMembers(e)[i].k, v |-> EnumValueInfo(EnumMembers(e)[i].v)]]

\* The registry after getOrAddEnum(_enum, name), for a valid name.
getOrAddEnum(es, e, name) ==
  IF hasEnum(es, e) THEN es
  ELSE Append(es, [k |-> e,
                   v |-> [name |-> Trim(name), target |-> e, description |-> Undefined,
                          values |-> InitialEnumValues(e)]])

\* Updates one FieldInfo in place (the record getOrAddField returned).
WithField(ts, typeName, name, f) ==
  LET info == Get(ts, typeName)
  IN Put(ts, typeName, [info EXCEPT !.fields = Put(@, name, f)])

FieldOf(ts, typeName, name) == Get(Get(ts, typeName).fields, name)

(***************************************************************************)
(* Outcome of the last API call.                                           *)
(***************************************************************************)
NoResult == [kind |-> "none"]
Thrown(err) == [kind |-> "error", err |-> err]

TypeNotDefined(name) == [msg |-> "Type not defined", ref |-> RefName(name)]
InterfaceNotDefined(ref) == [msg |-> "Interface not defined", ref |-> ref]
InvalidEnumName(name) == [msg |-> "Invalid name specified for enum", ref |-> RefName(name)]
\* Errors raised by the graphql library's constructors.
NotNullableType(node) == [msg |-> "Expected a GraphQL nullable type", ref |-> node]
NotAType(node) == [msg |-> "Expected a GraphQL type", ref |-> node]
DuplicateTypeName(name) ==
  [msg |-> "Schema must contain unique named types", ref |-> RefName(name)]

\* The _types and _enums of one SchemaBuilder instance.
Registry(ts, es) == [types |-> ts, enums |-> es]

\* One registry behind every instance: the other builder sees each write.
SharedRegistry == otherBuilder' = Registry(types', enums')

\* _types and _enums are instance fields: a call on this builder leaves the
\* other instance's registry alone.
OwnRegistry == otherBuilder' = otherBuilder

\* What every annotation call leaves behind besides its registry write.
Annotated ==
  /\ builds' = 0
  /\ result' = NoResult
  /\ OwnRegistry

(***************************************************************************)
(* Property annotations: the registry after the decorator has run.         *)
(***************************************************************************)
\* The description stored in a fresh FieldInfo that replaces the one on record.
descriptionReplacing(ts, c, static, p, text) ==
  LET owner == ConstructorName(c, static)
      ts1 == getOrAddField(ts, owner, p)
  IN WithField(ts1, owner, p, [NewFieldInfo(p) EXCEPT !.description = text])

descriptionApplied(ts, c, static, p, text) ==
  LET owner == ConstructorName(c, static)
      ts1 == getOrAddField(ts, owner, p)
  IN WithField(ts1, owner, p, [FieldOf(ts1, owner, p) EXCEPT !.description = text])

NoFieldArguments == [given |-> FALSE, args |-> NoArgs]
FieldArguments(a) == [given |-> TRUE, args |-> a]

\* `fargs` is the second parameter: NoFieldArguments, or FieldArguments(a)
\* where a is NoArgs (no `args` key) or SomeArgs(hash).
fieldApplied(ts, c, static, p, ref, fargs) ==
  LET owner == ConstructorName(c, static)
      ts0 == getOrAddType(ts, owner)
      target == Get(ts0, owner)
      ts1 == getOrAddField(ts0, owner, p)
      ts2 == WithField(ts1, owner, p,
                       [FieldOf(ts1, owner, p) EXCEPT !.type = ref, !.hasType = TRUE])
  IN IF fargs.given /\ target.kind # "input"
       THEN WithField(ts2, owner, p, [FieldOf(ts2, owner, p) EXCEPT !.args = fargs.args])
       ELSE ts2

resolveApplied(ts, c, static, p, resolver) ==
  LET owner == ConstructorName(c, static)
      ts1 == getOrAddField(ts, owner, p)
  IN WithField(ts1, owner, p, [FieldOf(ts1, owner, p) EXCEPT !.resolver = resolver])

listApplied(ts, c, static, p, ref, fargs) ==
  LET owner == ConstructorName(c, static)
      ts1 == getOrAddField(ts, owner, p)
      ts2 == WithField(ts1, owner, p,
                       [FieldOf(ts1, owner, p) EXCEPT !.type = ref, !.hasType = TRUE,
                                                      !.list = TRUE])
  IN IF fargs.given
       THEN WithField(ts2, owner, p, [FieldOf(ts2, owner, p) EXCEPT !.args = fargs.args])
       ELSE ts2

nonNullApplied(ts, c, static, p) ==
  LET owner == ConstructorName(c, static)
      ts1 == getOrAddField(ts, owner, p)
  IN WithField(ts1, owner, p, [FieldOf(ts1, owner, p) EXCEPT !.nonNull = TRUE])

nonNullItemsApplied(ts, c, static, p) ==
  LET owner == ConstructorName(c, static)
      ts1 == getOrAddField(ts, owner, p)
  IN WithField(ts1, owner, p, [FieldOf(ts1, owner, p) EXCEPT !.nonNullItems = TRUE])

description(c, static, p, text) ==
  /\ types' = descriptionApplied(types, c, static, p, text)
  /\ UNCHANGED enums
  /\ Annotated

field(c, static, p, ref, fargs) ==
  /\ types' = fieldApplied(types, c, static, p, ref, fargs)
  /\ UNCHANGED enums
  /\ Annotated

resolve(c, static, p, resolver) ==
  /\ types' = resolveApplied(types, c, static, p, resolver)
  /\ UNCHANGED enums
  /\ Annotated

list(c, static, p, ref, fargs) ==
  /\ types' = listApplied(types, c, static, p, ref, fargs)
  /\ UNCHANGED enums
  /\ Annotated

nonNull(c, static, p) ==
  /\ types' = nonNullApplied(types, c, static, p)
  /\ UNCHANGED enums
  /\ Annotated

nonNullItems(c, static, p) ==
  /\ types' = nonNullItemsApplied(types, c, static, p)
  /\ UNCHANGED enums
  /\ Annotated

(***************************************************************************)
(* Class annotations.  `cargs` is NoClassArguments or the argument object  *)
(* ClassArguments(description, interfaces).                                *)
(***************************************************************************)
NoClassArguments == [given |-> FALSE, description |-> Undefined, interfaces |-> NoInterfaces]
ClassArguments(d, i) == [given |-> TRUE, description |-> d, interfaces |-> i]

interfaceApplied(ts, c, cargs) ==
  LET ts1 == getOrAddType(ts, ClassName(c))
      t1 == [Get(ts1, ClassName(c)) EXCEPT !.kind = "interface", !.target = c]
      t2 == IF cargs.given
              THEN [t1 EXCEPT !.description = cargs.description,
                              !.interfaces = cargs.interfaces]
              ELSE t1
  IN Put(ts1, ClassName(c), t2)

typeApplied(ts, c, cargs) ==
  LET ts1 == getOrAddType(ts, ClassName(c))
      t1 == [Get(ts1, ClassName(c)) EXCEPT !.kind = "type", !.target = c]
      t2 == IF cargs.given
              THEN [t1 EXCEPT !.description = cargs.description,
                              !.interfaces = cargs.interfaces]
              ELSE t1
  IN Put(ts1, ClassName(c), t2)

\* input() that keeps a kind some earlier class annotation has set.
inputAppliedKeepingKind(ts, c, cargs) ==
  LET ts1 == getOrAddType(ts, ClassName(c))
      old == Get(ts1, ClassName(c))
      t1 == [old EXCEPT !.kind = IF old.kind = NoKind THEN "input" ELSE old.kind,
                        !.target = c]
      t2 == IF cargs.given THEN [t1 EXCEPT !.description = cargs.description] ELSE t1
  IN Put(ts1, ClassName(c), t2)

inputApplied(ts, c, cargs) ==
  LET ts1 == getOrAddType(ts, ClassName(c))
      t1 == [Get(ts1, ClassName(c)) EXCEPT !.kind = "input", !.target = c]
      t2 == IF cargs.given THEN [t1 EXCEPT !.description = cargs.description] ELSE t1
  IN Put(ts1, ClassName(c), t2)

\* scalar.scalar = new GraphQLScalarType({ name: object.name, ... }) is the node
\* Named("scalar", name) that build() stores under the record's name.
scalarApplied(ts, c) ==
  LET ts1 == getOrAddType(ts, ClassName(c))
  IN Put(ts1, ClassName(c), [Get(ts1, ClassName(c)) EXCEPT !.kind = "scalar", !.target = c])

interface(c, cargs) ==
  /\ types' = interfaceApplied(types, c, cargs)
  /\ UNCHANGED enums
  /\ Annotated

type(c, cargs) ==
  /\ types' = typeApplied(types, c, cargs)
  /\ UNCHANGED enums
  /\ Annotated

input(c, cargs) ==
  /\ types' = inputApplied(types, c, cargs)
  /\ UNCHANGED enums
  /\ Annotated

scalar(c) ==
  /\ types' = scalarApplied(types, c)
  /\ UNCHANGED enums
  /\ Annotated

(***************************************************************************)
(* Method annotations.                                                     *)
(***************************************************************************)
ResolverInfo(returnType, descr, args, subscribe) ==
  [type |-> returnType,
   config |-> [description |-> descr, args |-> args, resolve |-> "method",
               subscribe |-> subscribe]]

queryApplied(ts, c, static, m, returnType, descr, args) ==
  LET owner == ConstructorName(c, static)
      ts1 == getOrAddType(ts, owner)
  IN Put(ts1, owner,
         [Get(ts1, owner) EXCEPT
            !.queries = Put(@, m, ResolverInfo(returnType, descr, args, Undefined))])

mutationApplied(ts, c, static, m, returnType, descr, args) ==
  LET owner == ConstructorName(c, static)
      ts1 == getOrAddType(ts, owner)
  IN Put(ts1, owner,
         [Get(ts1, owner) EXCEPT
            !.mutations = Put(@, m, ResolverInfo(returnType, descr, args, Undefined))])

subscriptionApplied(ts, c, static, m, returnType, descr, args) ==
  LET owner == ConstructorName(c, static)
      ts1 == getOrAddType(ts, owner)
  IN Put(ts1, owner,
         [Get(ts1, owner) EXCEPT
            !.subscriptions = Put(@, m, ResolverInfo(returnType, descr, args, "subscribe"))])

query(c, static, m, returnType, descr, args) ==
  /\ types' = queryApplied(types, c, static, m, returnType, descr, args)
  /\ UNCHANGED enums
  /\ Annotated

mutation(c, static, m, returnType, descr, args) ==
  /\ types' = mutationApplied(types, c, static, m, returnType, descr, args)
  /\ UNCHANGED enums
  /\ Annotated

subscription(c, static, m, returnType, descr, args) ==
  /\ types' = subscriptionApplied(types, c, static, m, returnType, descr, args)
  /\ UNCHANGED enums
  /\ Annotated

(***************************************************************************)
(* decorateEnum(object, { name, description, values }).                    *)
(* `values` is NoEnumValues or EnumValues(hash of                          *)
(* name -> [description, deprecationReason]).                              *)
(***************************************************************************)
NoEnumValues == [given |-> FALSE, map |-> <<>>]
EnumValues(h) == [given |-> TRUE, map |-> h]
ValueText(d, r) == [description |-> d, deprecationReason |-> r]

RECURSIVE DescribeValues(_, _)
\* info.values[name] = info.values[name] || {}; then the two assignments.
DescribeValues(values, map) ==
  IF map = <<>> THEN values
  ELSE LET name == Head(map).k
           old == IF HasKey(values, name) THEN Get(values, name) ELSE EnumValueInfo(Undefined)
       IN DescribeValues(
            Put(values, name,
                [old EXCEPT !.description = Head(map).v.description,
                            !.deprecationReason = Head(map).v.deprecationReason]),
            Tail(map))

\* The enums after decorateEnum returned normally.
decorateEnumApplied(es, e, name, descr, values) ==
  LET es1 == getOrAddEnum(es, e, name)
      info1 == [Get(es1, e) EXCEPT !.description = descr]
      info2 == IF values.given
                 THEN [info1 EXCEPT !.values = DescribeValues(@, values.map)]
                 ELSE info1
  IN Put(es1, e, info2)

decorateEnum(e, name, descr, values) ==
  /\ builds' = 0
  /\ UNCHANGED types
  /\ IF ~ValidEnumName(name)
       THEN /\ result' = Thrown(InvalidEnumName(name))
            /\ UNCHANGED enums
       ELSE /\ enums' = decorateEnumApplied(enums, e, name, descr, values)
            /\ result' = NoResult
  /\ OwnRegistry

(***************************************************************************)
(* build(): conversion of deferred references.                             *)
(***************************************************************************)
NoError == [msg |-> "", ref |-> RefName("")]
Ok(node) == [ok |-> TRUE, node |-> node, err |-> NoError]
Fail(err) == [ok |-> FALSE, node |-> UndefinedNode, err |-> err]

\* The name-keyed maps build() fills before any reference is resolved:
\* enums[e.name] for every EnumInfo, and scalars / inputs / interfaces /
\* objects[name] for every TypeInfo of that kind.
EnumMaterialized(es, name) == \E i \in 1..Len(es) : es[i].v.name = name

KindMaterialized(ts, kind, name) == HasKey(ts, name) /\ Get(ts, name).kind = kind

\* convertOutputType without the hasType check: a missing name yields objects[name].
convertOutputTypeUnchecked(ts, es, ref) ==
  IF ref.k = "enumobj"
    THEN IF hasEnum(es, ref.obj)
           THEN Ok(Named("enum", Get(es, ref.obj).name))
           ELSE Ok(ForeignObject(ref.obj, Undefined))
  ELSE IF ref.k = "direct" THEN Ok(ref.node)
  ELSE IF ref.k = "fieldinfo" THEN Ok(ForeignObject("FieldInfo", ref.name))
  ELSE LET name == IF ref.k = "thunk" THEN ClassName(ref.cls) ELSE ref.name
       IN IF EnumMaterialized(es, name) THEN Ok(Named("enum", name))
          ELSE IF KindMaterialized(ts, "interface", name) THEN Ok(Named("interface", name))
          ELSE IF KindMaterialized(ts, "scalar", name) THEN Ok(Named("scalar", name))
          ELSE IF KindMaterialized(ts, "type", name) THEN Ok(Named("object", name))
          ELSE Ok(UndefinedNode)

convertOutputType(ts, es, ref) ==
  IF ref.k = "enumobj"
    THEN IF hasEnum(es, ref.obj)
           THEN Ok(Named("enum", Get(es, ref.obj).name))
           ELSE Ok(ForeignObject(ref.obj, Undefined))
  ELSE IF ref.k = "direct" THEN Ok(ref.node)
  ELSE IF ref.k = "fieldinfo" THEN Ok(ForeignObject("FieldInfo", ref.name))
  ELSE LET name == IF ref.k = "thunk" THEN ClassName(ref.cls) ELSE ref.name
       IN IF EnumMaterialized(es, name) THEN Ok(Named("enum", name))
          ELSE IF KindMaterialized(ts, "interface", name) THEN Ok(Named("interface", name))
          ELSE IF KindMaterialized(ts, "scalar", name) THEN Ok(Named("scalar", name))
          ELSE IF ~hasType(ts, name) THEN Fail(TypeNotDefined(name))
          ELSE IF KindMaterialized(ts, "type", name) THEN Ok(Named("object", name))
          ELSE Ok(UndefinedNode)

\* convertInputType without the enum-identity branch: the enum object is returned as given.
convertInputTypeByNameOnly(ts, es, ref) ==
  IF ref.k = "direct" THEN Ok(ref.node)
  ELSE IF ref.k = "fieldinfo" THEN Ok(ForeignObject("FieldInfo", ref.name))
  ELSE IF ref.k = "enumobj" THEN Ok(ForeignObject(ref.obj, Undefined))
  ELSE LET name == IF ref.k = "thunk" THEN ClassName(ref.cls) ELSE ref.name
       IN IF EnumMaterialized(es, name) THEN Ok(Named("enum", name))
          ELSE IF KindMaterialized(ts, "scalar", name) THEN Ok(Named("scalar", name))
          ELSE IF KindMaterialized(ts, "input", name) THEN Ok(Named("input", name))
          ELSE Ok(UndefinedNode)

\* convertInputType raising for an unregistered name, as convertOutputType does.
convertInputTypeChecked(ts, es, ref) ==
  IF ref.k = "direct" THEN Ok(ref.node)
  ELSE IF ref.k = "fieldinfo" THEN Ok(ForeignObject("FieldInfo", ref.name))
  ELSE IF ref.k = "enumobj" /\ ~hasEnum(es, ref.obj) THEN Ok(ForeignObject(ref.obj, Undefined))
  ELSE LET name == IF ref.k = "thunk" THEN ClassName(ref.cls)
                   ELSE IF ref.k = "enumobj" THEN Get(es, ref.obj).name
                   ELSE ref.name
       IN IF EnumMaterialized(es, name) THEN Ok(Named("enum", name))
          ELSE IF KindMaterialized(ts, "scalar", name) THEN Ok(Named("scalar", name))
          ELSE IF ~hasType(ts, name) THEN Fail(TypeNotDefined(name))
          ELSE IF KindMaterialized(ts, "input", name) THEN Ok(Named("input", name))
          ELSE Ok(UndefinedNode)

convertInputType(ts, es, ref) ==
  IF ref.k = "direct" THEN Ok(ref.node)
  ELSE IF ref.k = "fieldinfo" THEN Ok(ForeignObject("FieldInfo", ref.name))
  ELSE IF ref.k = "enumobj" /\ ~hasEnum(es, ref.obj) THEN Ok(ForeignObject(ref.obj, Undefined))
  ELSE LET name == IF ref.k = "thunk" THEN ClassName(ref.cls)
                   ELSE IF ref.k = "enumobj" THEN Get(es, ref.obj).name
                   ELSE ref.name
       IN IF EnumMaterialized(es, name) THEN Ok(Named("enum", name))
          ELSE IF KindMaterialized(ts, "scalar", name) THEN Ok(Named("scalar", name))
          ELSE IF KindMaterialized(ts, "input", name) THEN Ok(Named("input", name))
          ELSE Ok(UndefinedNode)

converter(ts, es, inputPos, ref) ==
  IF inputPos THEN convertInputType(ts, es, ref) ELSE convertOutputType(ts, es, ref)

\* graphql's isType / the constructors' assertions on their argument.
IsGraphQLType(node) == node.k \in {"named", "nonnull", "list"}

\* A non-null wrapper that accepts any type, a non-null wrapper included.
GraphQLNonNullOfAny(r) ==
  IF ~r.ok THEN r
  ELSE IF IsGraphQLType(r.node) THEN Ok(NonNull(r.node))
  ELSE Fail(NotNullableType(r.node))

\* new GraphQLNonNull(type): asserts a nullable type.
GraphQLNonNull(r) ==
  IF ~r.ok THEN r
  ELSE IF IsGraphQLType(r.node) /\ r.node.k # "nonnull" THEN Ok(NonNull(r.node))
  ELSE Fail(NotNullableType(r.node))

\* new GraphQLList(type): asserts a type.
GraphQLList(r) ==
  IF ~r.ok THEN r
  ELSE IF IsGraphQLType(r.node) THEN Ok(List(r.node))
  ELSE Fail(NotAType(r.node))

\* The three wrapping steps of convertFieldInfoToType, on the converted type.
WrapItems(fieldInfo, t) == IF fieldInfo.nonNullItems THEN GraphQLNonNull(t) ELSE t

WrapList(fieldInfo, t) == IF fieldInfo.list THEN GraphQLList(t) ELSE t

WrapOuter(fieldInfo, t) ==
  IF t.ok /\ fieldInfo.nonNull /\ t.node.k # "nonnull" THEN GraphQLNonNull(t) ELSE t

\* The list wrapper applied before the item wrapper.
convertFieldInfoToTypeListFirst(ts, es, fieldInfo, inputPos) ==
  IF fieldInfo.k = "fieldinfo" /\ fieldInfo.hasType
    THEN WrapOuter(fieldInfo,
           WrapItems(fieldInfo,
             WrapList(fieldInfo, converter(ts, es, inputPos, fieldInfo.type))))
    ELSE converter(ts, es, inputPos, fieldInfo)

convertFieldInfoToType(ts, es, fieldInfo, inputPos) ==
  IF fieldInfo.k = "fieldinfo" /\ fieldInfo.hasType
    THEN WrapOuter(fieldInfo,
           WrapList(fieldInfo,
             WrapItems(fieldInfo, converter(ts, es, inputPos, fieldInfo.type))))
    ELSE converter(ts, es, inputPos, fieldInfo)

\* Object.entries(args).map(([name, arg]) => ({ [name]: { ...arg, type: convertInputType(arg.type) } }))
convertArguments(ts, es, args) ==
  [i \in 1..Len(args) |->
     [k |-> args[i].k, v |-> [type |-> convertInputType(ts, es, args[i].v.type).node]]]

(***************************************************************************)
(* build(): field sets.                                                    *)
(***************************************************************************)
RECURSIVE getPrototypeOfAnyName(_)
\* The walk up the prototype chain without the test of proto.name.
getPrototypeOfAnyName(c) ==
  LET proto == ClassParent(c)
  IN IF proto # NoClass
       THEN <<proto>> \o getPrototypeOfAnyName(proto)
       ELSE <<>>

RECURSIVE getPrototypeOf(_)
getPrototypeOf(c) ==
  LET proto == ClassParent(c)
  IN IF proto # NoClass /\ ClassName(proto) # ""
       THEN <<proto>> \o getPrototypeOf(proto)
       ELSE <<>>

getInheritanceTree(c) == <<c>> \o getPrototypeOf(c)

\* The chain left self-first: an ancestor's field then overrides the class's own.
NotReversed(s) == s

Reverse(s) == [i \in 1..Len(s) |-> s[Len(s) + 1 - i]]

RECURSIVE MergeParentFields(_, _, _)
\* parents.map(parent => parent.fields).reduce((p, c) => ({ ...p, ...c }), {}),
\* over the ancestors findByClass finds.
MergeParentFields(ts, chain, acc) ==
  IF chain = <<>> THEN acc
  ELSE LET parent == findByClass(ts, Head(chain))
       IN MergeParentFields(ts, Tail(chain),
                            IF parent.found THEN Spread(acc, parent.info.fields) ELSE acc)

MergedFields(ts, info) ==
  MergeParentFields(ts, Reverse(getInheritanceTree(info.target)), EmptyHash)

NoFields == [ok |-> TRUE, fields |-> <<>>, err |-> NoError]

\* The entry without `delete result.resolve` for input types.
CompiledFieldKeepingResolver(ts, es, info, name, fieldInfo, node) ==
  [name |-> name,
   type |-> node,
   args |-> IF fieldInfo.args.set
              THEN SomeArgs(convertArguments(ts, es, fieldInfo.args.args))
              ELSE NoArgs,
   resolve |-> fieldInfo.resolver,
   hasResolve |-> TRUE,
   description |-> fieldInfo.description]

\* One entry of the thunk's result, for a field whose type converted to `node`.
CompiledField(ts, es, info, name, fieldInfo, node) ==
  [name |-> name,
   type |-> node,
   args |-> IF fieldInfo.args.set
              THEN SomeArgs(convertArguments(ts, es, fieldInfo.args.args))
              ELSE NoArgs,
   resolve |-> IF info.kind = "input" THEN Undefined ELSE fieldInfo.resolver,
   hasResolve |-> info.kind # "input",
   description |-> fieldInfo.description]

RECURSIVE ConvertFields(_, _, _, _, _)
RECURSIVE ConvertField(_, _, _, _, _, _)

\* fields.map(([name, fieldInfo]) => ...): the first conversion that throws ends it.
ConvertFields(ts, es, info, fields, acc) ==
  IF fields = <<>> THEN acc
  ELSE ConvertField(ts, es, info, fields, acc,
                    convertFieldInfoToType(ts, es, Head(fields).v, info.kind = "input"))

ConvertField(ts, es, info, fields, acc, t) ==
  IF ~t.ok THEN [ok |-> FALSE, fields |-> <<>>, err |-> t.err]
  ELSE ConvertFields(ts, es, info, Tail(fields),
                     [acc EXCEPT !.fields =
                        Put(@, Head(fields).k,
                            CompiledField(ts, es, info, Head(fields).k, Head(fields).v, t.node))])

\* The records registered up to and including the one named `name`.
RegisteredUpTo(ts, name) ==
  SubSeq(ts, 1, CHOOSE i \in 1..Len(ts) : ts[i].k = name)

\* Fields converted while the type's own record is materialized: references
\* see only the records registered so far.
getFieldsEagerly(ts, es, info) ==
  ConvertFields(RegisteredUpTo(ts, info.name), es, info, MergedFields(ts, info), NoFields)

\* The fields thunk of the type built from `info`, invoked.
getFields(ts, es, info) == ConvertFields(ts, es, info, MergedFields(ts, info), NoFields)

NoNodes == [ok |-> TRUE, nodes |-> <<>>, err |-> NoError]

RECURSIVE ResolveInterfaces(_, _, _)
ResolveInterfaces(ts, refs, acc) ==
  IF refs = <<>> THEN acc
  ELSE LET ref == Head(refs)
           name == IF ref.k = "class" THEN ClassName(ref.cls) ELSE ref.name
       IN IF ref.k \in {"string", "class"} /\ KindMaterialized(ts, "interface", name)
            THEN ResolveInterfaces(ts, Tail(refs),
                                   [acc EXCEPT !.nodes = Append(@, Named("interface", name))])
            ELSE [ok |-> FALSE, nodes |-> <<>>, err |-> InterfaceNotDefined(ref)]

\* The interfaces thunk of an object type, invoked.
getInterfaces(ts, info) ==
  IF info.interfaces.set THEN ResolveInterfaces(ts, info.interfaces.list, NoNodes)
  ELSE NoNodes

RefClass(c) == [k |-> "class", cls |-> c]

(***************************************************************************)
(* build(): root operation assembly.                                       *)
(***************************************************************************)
\* queries[key] = { ...value.config, type: ..., args: ... }
CompiledOperation(ts, es, key, value, node) ==
  [name |-> key,
   type |-> node,
   args |-> IF value.config.args.set
              THEN SomeArgs(convertArguments(ts, es, value.config.args.args))
              ELSE SomeArgs(<<>>),
   resolve |-> value.config.resolve,
   hasResolve |-> TRUE,
   description |-> value.config.description]

NoRoots ==
  [ok |-> TRUE, err |-> NoError, queries |-> <<>>, mutations |-> <<>>, subscriptions |-> <<>>]

FailedRoots(err) ==
  [ok |-> FALSE, err |-> err, queries |-> <<>>, mutations |-> <<>>, subscriptions |-> <<>>]

RECURSIVE CompileOperations(_, _, _, _, _)
RECURSIVE CompileOperation(_, _, _, _, _, _)

\* Object.entries(info.queries).forEach(([key, value]) => { queries[key] = ... }),
\* and the same for mutations and subscriptions (`which`).  `acc` holds the
\* three global maps; the first conversion that throws ends build().
CompileOperations(ts, es, ops, which, acc) ==
  IF ops = <<>> \/ ~acc.ok THEN acc
  ELSE CompileOperation(ts, es, ops, which, acc,
                        convertFieldInfoToType(ts, es, Head(ops).v.type, FALSE))

CompileOperation(ts, es, ops, which, acc, t) ==
  IF ~t.ok THEN FailedRoots(t.err)
  ELSE CompileOperations(ts, es, Tail(ops), which,
         [acc EXCEPT ![which] =
            Put(@, Head(ops).k, CompiledOperation(ts, es, Head(ops).k, Head(ops).v, t.node))])

RECURSIVE RootOperationsOfAnnotated(_, _, _, _)
\* Operations hoisted only from the records of classes with a class-level annotation.
RootOperationsOfAnnotated(ts, es, rest, acc) ==
  IF rest = <<>> THEN acc
  ELSE IF Head(rest).v.target = NoClass
    THEN RootOperationsOfAnnotated(ts, es, Tail(rest), acc)
  ELSE RootOperationsOfAnnotated(ts, es, Tail(rest),
         CompileOperations(ts, es, Head(rest).v.subscriptions, "subscriptions",
           CompileOperations(ts, es, Head(rest).v.mutations, "mutations",
             CompileOperations(ts, es, Head(rest).v.queries, "queries", acc))))

RECURSIVE RootOperations(_, _, _, _)
\* The second pass over builder.types: per TypeInfo its queries, then its
\* mutations, then its subscriptions.
RootOperations(ts, es, rest, acc) ==
  IF rest = <<>> THEN acc
  ELSE RootOperations(ts, es, Tail(rest),
         CompileOperations(ts, es, Head(rest).v.subscriptions, "subscriptions",
           CompileOperations(ts, es, Head(rest).v.mutations, "mutations",
             CompileOperations(ts, es, Head(rest).v.queries, "queries", acc))))

\* new GraphQLObjectType({ name: 'Query' | 'Mutation' | 'Subscriptions', ... })
RootType(name) == Named("root", name)

(***************************************************************************)
(* build(): new GraphQLSchema({ query, mutation, subscription }).  The     *)
(* constructor collects the types reachable from the root types, which     *)
(* invokes the fields and interfaces thunks build() handed to the library. *)
(***************************************************************************)
NodeName(node) == node.name

\* The fields thunk of a node, invoked: [ok, fields, err].
FieldsOfNode(ts, es, roots, node) ==
  IF node.k = "named" /\ node.kind = "root"
    THEN [ok |-> TRUE, err |-> NoError,
          fields |-> IF node.name = "Query" THEN roots.queries
                     ELSE IF node.name = "Mutation" THEN roots.mutations
                     ELSE roots.subscriptions]
  ELSE IF node.k = "named" /\ node.kind \in {"object", "interface", "input"}
    THEN getFields(ts, es, Get(ts, node.name))
  ELSE NoFields

InterfacesOfNode(ts, node) ==
  IF node.k = "named" /\ node.kind = "object" THEN getInterfaces(ts, Get(ts, node.name))
  ELSE NoNodes

RECURSIVE ArgTypes(_)
ArgTypes(args) == IF args = <<>> THEN <<>> ELSE <<Head(args).v.type>> \o ArgTypes(Tail(args))

RECURSIVE FieldTypes(_, _)
\* Per field: its argument types (objects and interfaces only), then its type.
FieldTypes(fields, withArgs) ==
  IF fields = <<>> THEN <<>>
  ELSE LET f == Head(fields).v
       IN (IF withArgs /\ f.args.set THEN ArgTypes(f.args.args) ELSE <<>>)
            \o <<f.type>> \o FieldTypes(Tail(fields), withArgs)

EmptyTypeMap == [ok |-> TRUE, map |-> <<>>, err |-> NoError]

FailedTypeMap(err) == [ok |-> FALSE, map |-> <<>>, err |-> err]

RECURSIVE typeMapReducer(_, _, _, _, _)
RECURSIVE typeMapReduce(_, _, _, _, _)
RECURSIVE CollectInterfaces(_, _, _, _, _)
RECURSIVE CollectFields(_, _, _, _, _, _)

\* nodes.reduce(typeMapReducer, map)
typeMapReduce(ts, es, roots, acc, nodes) ==
  IF nodes = <<>> THEN acc
  ELSE typeMapReduce(ts, es, roots, typeMapReducer(ts, es, roots, acc, Head(nodes)), Tail(nodes))

RECURSIVE typeMapReducerFirstWins(_, _, _, _, _)
\* typeMapReducer without the invariant on a name met twice: the node collected
\* first stays in the map.
typeMapReducerFirstWins(ts, es, roots, acc, node) ==
  IF ~acc.ok \/ node.k = "undefined" THEN acc
  ELSE IF node.k \in {"nonnull", "list"}
    THEN typeMapReducerFirstWins(ts, es, roots, acc, node.of)
  ELSE IF HasKey(acc.map, NodeName(node)) THEN acc
  ELSE CollectFields(ts, es, roots, node,
         CollectInterfaces(ts, es, roots,
                           [acc EXCEPT !.map = Put(@, NodeName(node), node)],
                           InterfacesOfNode(ts, node)),
         FieldsOfNode(ts, es, roots, node))

typeMapReducer(ts, es, roots, acc, node) ==
  IF ~acc.ok \/ node.k = "undefined" THEN acc
  ELSE IF node.k \in {"nonnull", "list"} THEN typeMapReducer(ts, es, roots, acc, node.of)
  ELSE IF HasKey(acc.map, NodeName(node))
    THEN IF Get(acc.map, NodeName(node)) = node THEN acc
         ELSE FailedTypeMap(DuplicateTypeName(NodeName(node)))
  ELSE CollectFields(ts, es, roots, node,
         CollectInterfaces(ts, es, roots,
                           [acc EXCEPT !.map = Put(@, NodeName(node), node)],
                           InterfacesOfNode(ts, node)),
         FieldsOfNode(ts, es, roots, node))

\* type.getInterfaces().reduce(typeMapReducer, reducedMap)
CollectInterfaces(ts, es, roots, acc, ifaces) ==
  IF ~ifaces.ok THEN FailedTypeMap(ifaces.err)
  ELSE typeMapReduce(ts, es, roots, acc, ifaces.nodes)

\* objectValues(type.getFields()).forEach(field => ...)
CollectFields(ts, es, roots, node, acc, fs) ==
  IF ~acc.ok THEN acc
  ELSE IF ~fs.ok THEN FailedTypeMap(fs.err)
  ELSE typeMapReduce(ts, es, roots, acc, FieldTypes(fs.fields, node.kind # "input"))

\* What the schema holds of one collected type.
DescribeType(ts, es, roots, node) ==
  [node |-> node,
   description |-> IF node.k = "named" /\ node.kind \in {"object", "interface", "input"}
                     THEN Get(ts, node.name).description ELSE Undefined,
   fields |-> FieldsOfNode(ts, es, roots, node).fields,
   interfaces |-> InterfacesOfNode(ts, node).nodes,
   values |-> IF node.k = "named" /\ node.kind = "enum"
                THEN LET i == CHOOSE i \in 1..Len(es) :
                                /\ es[i].v.name = node.name
                                /\ \A j \in (i + 1)..Len(es) : es[j].v.name # node.name
                     IN [description |-> es[i].v.description, values |-> es[i].v.values]
                ELSE [description |-> Undefined, values |-> <<>>]]

Null == [k |-> "null"]

\* A Mutation root built whether or not a mutation is registered.
MutationTypeAlways(roots) == RootType("Mutation")

\* Object.keys(mutations).length ? new GraphQLObjectType({ name: 'Mutation', ... }) : null
MutationType(roots) ==
  IF Len(roots.mutations) > 0 THEN RootType("Mutation") ELSE Null

\* Object.keys(subscriptions).length ? new GraphQLObjectType({ name: 'Subscriptions', ... }) : null
SubscriptionType(roots) ==
  IF Len(roots.subscriptions) > 0 THEN RootType("Subscriptions") ELSE Null

\* The initial types of the schema: null root types are skipped.
RootTypes(roots) ==
  SelectSeq(<<RootType("Query"), MutationType(roots), SubscriptionType(roots)>>,
            LAMBDA t : t # Null)

Schema(ts, es, roots, typeMap) ==
  [kind |-> "schema",
   query |-> RootType("Query"),
   mutation |-> MutationType(roots),
   subscription |-> SubscriptionType(roots),
   types |-> [i \in 1..Len(typeMap) |->
                [k |-> typeMap[i].k, v |-> DescribeType(ts, es, roots, typeMap[i].v)]]]

\* return new GraphQLSchema({ query, mutation, subscription })
NewGraphQLSchema(ts, es, roots, collected) ==
  IF ~collected.ok THEN Thrown(collected.err)
  ELSE Schema(ts, es, roots, collected.map)

AssembleRoots(ts, es, roots) ==
  IF ~roots.ok THEN Thrown(roots.err)
  ELSE NewGraphQLSchema(ts, es, roots,
                        typeMapReduce(ts, es, roots, EmptyTypeMap, RootTypes(roots)))

\* The value build() returns, or the error it throws.
BuildResult(ts, es) == AssembleRoots(ts, es, RootOperations(ts, es, ts, NoRoots))

\* A build() whose lookup of a missing name registers it (getOrAddType in the
\* place of hasType).
buildRegistering ==
  /\ builds < MaxBuilds
  /\ builds' = builds + 1
  /\ result' = BuildResult(types, enums)
  /\ types' = getOrAddType(types, "Unknown")
  /\ UNCHANGED enums
  /\ OwnRegistry

build ==
  /\ builds < MaxBuilds
  /\ builds' = builds + 1
  /\ result' = BuildResult(types, enums)
  /\ UNCHANGED <<types, enums>>
  /\ OwnRegistry

\* A call of getInheritanceTree(c): its return value is the outcome on record.
TreeOf(c, chain) == [kind |-> "tree", of |-> c, chain |-> chain]

inheritanceTree(c) ==
  /\ result' = TreeOf(c, getInheritanceTree(c))
  /\ builds' = 0
  /\ UNCHANGED <<types, enums>>
  /\ OwnRegistry

\* The calls that follow go to the other SchemaBuilder instance.
useOtherBuilder ==
  /\ types' = otherBuilder.types
  /\ enums' = otherBuilder.enums
  /\ otherBuilder' = Registry(types, enums)
  /\ builds' = 0
  /\ result' = NoResult

Init ==
  /\ types = EmptyHash
  /\ enums = EmptyHash
  /\ result = NoResult
  /\ builds = 0
  /\ otherBuilder = Registry(EmptyHash, EmptyHash)

(***************************************************************************)
(* Spec: references and root types.  Classes A, B (extends A) and C are    *)
(* annotated with fields and operations whose types are given directly, by *)
(* name, or by thunk, some of them naming things that are never declared.  *)
(***************************************************************************)
FieldRefs == {RefDirect(GraphQLString), RefName("Unknown"), RefThunk("C")}

QueryReturns == {RefThunk("A"), RefThunk("B"), RefName("Function"), RefName("Unknown")}

UnknownInterface == ClassArguments("B type", SomeInterfaces(<<RefName("Unknown")>>))

InputArg == SomeArgs(<<[k |-> "x", v |-> [type |-> RefName("C")]]>>)

Next ==
  \/ type("A", NoClassArguments)
  \/ type("B", UnknownInterface)
  \/ input("C", NoClassArguments)
  \/ \E ref \in FieldRefs : field("A", FALSE, "f", ref, NoFieldArguments)
  \/ \E ret \in QueryReturns : query("A", TRUE, "q", ret, Undefined, NoArgs)
  \/ mutation("A", TRUE, "m", RefDirect(GraphQLBoolean), Undefined, InputArg)
  \/ subscription("B", FALSE, "s", ReturnInfo(RefThunk("A"), TRUE, FALSE, TRUE),
                  Undefined, NoArgs)
  \/ build

Spec == Init /\ [][Next]_vars

(***************************************************************************)
(* Vocabulary of the properties.                                           *)
(***************************************************************************)
\* A reference by name: a string, or a thunk returning a class.
ByName(ref) == ref.k \in {"string", "thunk"}

ReferredName(ref) == IF ref.k = "thunk" THEN ClassName(ref.cls) ELSE ref.name

\* The reference an operation's returnType or a FieldInfo carries.
BaseRef(x) == IF x.k = "fieldinfo" THEN x.type ELSE x

\* A name that is declared: it has a TypeRecord, or an enum is registered under it.
Declared(name) == hasType(types, name) \/ EnumMaterialized(enums, name)

UndeclaredRef(ref) == ByName(ref) /\ ~Declared(ReferredName(ref))

UnresolvedInterface(ref) ==
  ~(ref.k \in {"string", "class"}
    /\ KindMaterialized(types, "interface",
                        IF ref.k = "class" THEN ClassName(ref.cls) ELSE ref.name))

Operations(info) == info.queries \o info.mutations \o info.subscriptions

Built == builds > 0

Returned == Built /\ result.kind = "schema"

Threw == Built /\ result.kind = "error"

(***************************************************************************)
(* C1 (as claimed): whenever build() returns normally, every field type,   *)
(* argument type and operation return type of every type of the schema is  *)
(* a materialized node, never undefined.  The code returns a schema whose   *)
(* Query field has the type objects[name] === undefined when the name has   *)
(* a TypeRecord that is not of kind 'type'.                                 *)
(***************************************************************************)
C1_NoDanglingReference ==
  Returned =>
    \A i \in 1..Len(result.types) :
      \A j \in 1..Len(result.types[i].v.fields) :
        LET f == result.types[i].v.fields[j].v
        IN /\ IsGraphQLType(f.type)
           /\ f.args.set => \A a \in 1..Len(f.args.args) : IsGraphQLType(f.args.args[a].v.type)

(***************************************************************************)
(* C2 (as claimed): in every registry in which some type declares a field  *)
(* whose type is a never-declared name, build() throws "Type '<name>' not  *)
(* defined", and in every registry in which an object type lists an        *)
(* undeclared interface, build() throws "Interface '<ref>' not defined".   *)
(***************************************************************************)
C2_AlwaysThrows ==
  Built =>
    \A i \in 1..Len(types) :
      /\ \A j \in 1..Len(types[i].v.fields) :
           LET f == types[i].v.fields[j].v
           IN (f.hasType /\ UndeclaredRef(f.type))
                => result = Thrown(TypeNotDefined(ReferredName(f.type)))
      /\ (types[i].v.kind = "type" /\ types[i].v.interfaces.set)
           => \A r \in 1..Len(types[i].v.interfaces.list) :
                UnresolvedInterface(types[i].v.interfaces.list[r])
                  => result = Thrown(InterfaceNotDefined(types[i].v.interfaces.list[r]))

(***************************************************************************)
(* C2 (amended): build() returns a schema only if no operation returns a   *)
(* never-declared name, no object or interface type contained in that      *)
(* schema has a field whose type is a never-declared name, and no object   *)
(* type contained in it lists an interface that is not declared as one;    *)
(* when build() throws "Type '<name>' not defined" the name is an          *)
(* undeclared name some field or operation refers to, and when it throws   *)
(* "Interface '<ref>' not defined" the reference is listed by an object    *)
(* type and is not a declared interface.  Types that the root operations   *)
(* do not reach are not resolved.                                          *)
(***************************************************************************)
C2_ThrowsWhenResolved ==
  /\ Returned =>
       /\ \A i \in 1..Len(types) :
            \A o \in 1..Len(Operations(types[i].v)) :
              ~UndeclaredRef(BaseRef(Operations(types[i].v)[o].v.type))
       /\ \A i \in 1..Len(result.types) :
            LET node == result.types[i].v.node
            IN (node.k = "named" /\ node.kind \in {"object", "interface"})
                 => LET info == Get(types, node.name)
                        merged == MergedFields(types, info)
                    IN /\ \A j \in 1..Len(merged) :
                            merged[j].v.hasType => ~UndeclaredRef(merged[j].v.type)
                       /\ (node.kind = "object" /\ info.interfaces.set)
                            => \A r \in 1..Len(info.interfaces.list) :
                                 ~UnresolvedInterface(info.interfaces.list[r])
  /\ (Threw /\ result.err.msg = "Type not defined") =>
       /\ UndeclaredRef(result.err.ref)
       /\ \E i \in 1..Len(types) :
            \/ \E j \in 1..Len(types[i].v.fields) :
                 /\ types[i].v.fields[j].v.hasType
                 /\ ByName(types[i].v.fields[j].v.type)
                 /\ ReferredName(types[i].v.fields[j].v.type) = result.err.ref.name
            \/ \E o \in 1..Len(Operations(types[i].v)) :
                 LET ref == BaseRef(Operations(types[i].v)[o].v.type)
                 IN ByName(ref) /\ ReferredName(ref) = result.err.ref.name
  /\ (Threw /\ result.err.msg = "Interface not defined") =>
       /\ UnresolvedInterface(result.err.ref)
       /\ \E i \in 1..Len(types) :
            /\ types[i].v.kind = "type"
            /\ types[i].v.interfaces.set
            /\ \E r \in 1..Len(types[i].v.interfaces.list) :
                 types[i].v.interfaces.list[r] = result.err.ref

\* build() threw for the undeclared name of a field, reached through a query.
C2_Witness ==
  /\ Threw
  /\ result = Thrown(TypeNotDefined("Unknown"))
  /\ \A i \in 1..Len(types) :
       \A o \in 1..Len(Operations(types[i].v)) :
         ~UndeclaredRef(BaseRef(Operations(types[i].v)[o].v.type))

C5_BuildLeavesRegistry ==
  [][builds' > builds => (types' = types /\ enums' = enums)]_vars

C5_Witness == Threw /\ Len(types) >= 2

(***************************************************************************)
(* C10: a schema build() returns has a Mutation root type iff some          *)
(* mutation is registered, a Subscriptions root type iff some subscription  *)
(* is registered, and always a Query root type.                             *)
(***************************************************************************)
C10_RootAssembly ==
  Returned =>
    /\ result.query = RootType("Query")
    /\ HasKey(result.types, "Query") /\ Get(result.types, "Query").node = RootType("Query")
    /\ (result.mutation # Null) <=> (\E i \in 1..Len(types) : Len(types[i].v.mutations) > 0)
    /\ (result.subscription # Null)
         <=> (\E i \in 1..Len(types) : Len(types[i].v.subscriptions) > 0)
    /\ (result.mutation # Null)
         => /\ result.mutation = RootType("Mutation")
            /\ HasKey(result.types, "Mutation")
            /\ Get(result.types, "Mutation").node = RootType("Mutation")
    /\ (result.subscription # Null)
         => /\ result.subscription = RootType("Subscriptions")
            /\ HasKey(result.types, "Subscriptions")
            /\ Get(result.types, "Subscriptions").node = RootType("Subscriptions")
    /\ (result.mutation = Null) => ~HasKey(result.types, "Mutation")

C10_Witness ==
  /\ Returned
  /\ result.mutation # Null
  /\ result.subscription = Null
  /\ \E i \in 1..Len(types) : Len(types[i].v.queries) > 0

(***************************************************************************)
(* SpecInherit: class B extends class A; both declare fields, f in both.   *)
(***************************************************************************)
StringArg == SomeArgs(<<[k |-> "x", v |-> [type |-> RefDirect(GraphQLString)]]>>)

NextInherit ==
  \/ type("A", NoClassArguments)
  \/ type("B", NoClassArguments)
  \/ \E p \in {"f", "g"} : field("A", FALSE, p, RefDirect(GraphQLString), NoFieldArguments)
  \/ field("B", FALSE, "f", RefDirect(GraphQLBoolean), FieldArguments(StringArg))
  \/ field("B", FALSE, "h", RefDirect(GraphQLBoolean), NoFieldArguments)
  \/ \E c \in {"A", "B"} : description(c, FALSE, "f", c)
  \/ nonNull("B", FALSE, "f")
  \/ query("B", TRUE, "q", RefThunk("B"), Undefined, NoArgs)
  \/ build

SpecInherit == Init /\ [][NextInherit]_vars

\* The compiled fields of the type named `name` in the schema build() returned.
CompiledFields(name) == Get(result.types, name).fields

OwnFields(name) == IF HasKey(types, name) THEN Get(types, name).fields ELSE <<>>

BothDeclareFields == Len(OwnFields("A")) > 0 /\ Len(OwnFields("B")) > 0

\* The compiled B agrees with the FieldRecords B and A hold: the union of the
\* names, each once, and B's record wherever B declares the name.
MergesAIntoB ==
  LET compiled == CompiledFields("B")
      info == Get(types, "B")
  IN /\ Keys(compiled) = Keys(OwnFields("A")) \cup Keys(OwnFields("B"))
     /\ \A i, j \in 1..Len(compiled) : compiled[i].k = compiled[j].k => i = j
     /\ \A i \in 1..Len(OwnFields("B")) :
          LET own == OwnFields("B")[i].v
              c == Get(compiled, own.name)
          IN /\ c.type = convertFieldInfoToType(types, enums, own, info.kind = "input").node
             /\ c.args = (IF own.args.set
                            THEN SomeArgs(convertArguments(types, enums, own.args.args))
                            ELSE NoArgs)
             /\ c.resolve = own.resolver
             /\ c.description = own.description

(***************************************************************************)
(* C6 (as claimed): for a class B that extends a class A where both        *)
(* declare fields, the compiled type for B has exactly the union of A's    *)
(* and B's field names; a name declared in both appears once and carries   *)
(* B's FieldRecord attributes.                                             *)
(***************************************************************************)
C6_UnionOfDeclaredFields ==
  (Returned /\ HasKey(result.types, "B") /\ BothDeclareFields) => MergesAIntoB

(***************************************************************************)
(* C6 (amended): the same, for a class A that itself carries a class-level *)
(* annotation (its TypeRecord has A as owning class); the fields of an     *)
(* ancestor with only property-level annotations are not merged.           *)
(***************************************************************************)
C6_UnionOfAnnotatedAncestor ==
  (Returned /\ HasKey(result.types, "B") /\ BothDeclareFields /\ findByClass(types, "A").found)
    => MergesAIntoB

\* B is compiled with a field of A's only, one of its own only, and f from both.
C6_Witness ==
  /\ Returned /\ HasKey(result.types, "B") /\ findByClass(types, "A").found
  /\ Keys(OwnFields("A")) = {"f", "g"}
  /\ Keys(OwnFields("B")) = {"f", "h"}
  /\ Get(OwnFields("A"), "f").description = "A"
  /\ Get(OwnFields("B"), "f").nonNull
  /\ Get(CompiledFields("B"), "f").type = NonNull(GraphQLBoolean)

(***************************************************************************)
(* SpecWrap: one field and one operation under every combination of the    *)
(* list / nonNull / nonNullItems modifiers.                                *)
(***************************************************************************)
WrapRefs == {RefDirect(GraphQLString), RefThunk("A"), RefDirect(NonNull(GraphQLBoolean))}

WrapReturns ==
  {ReturnInfo(RefThunk("A"), l, n, i) : l \in BOOLEAN, n \in BOOLEAN, i \in BOOLEAN}

NextWrap ==
  \/ type("A", NoClassArguments)
  \/ \E ref \in WrapRefs : field("A", FALSE, "f", ref, NoFieldArguments)
  \/ list("A", FALSE, "f", RefDirect(GraphQLString), NoFieldArguments)
  \/ nonNull("A", FALSE, "f")
  \/ nonNullItems("A", FALSE, "f")
  \/ \E ret \in WrapReturns : query("A", TRUE, "q", ret, Undefined, NoArgs)
  \/ subscription("A", FALSE, "s", ReturnInfo(RefDirect(GraphQLString), TRUE, TRUE, FALSE),
                  Undefined, NoArgs)
  \/ build

SpecWrap == Init /\ [][NextWrap]_vars

\* The four cases of the wrapping law, for a record r with base type T.
ObeysWrappingLaw(r, T, compiled) ==
  /\ (r.list /\ r.nonNullItems /\ r.nonNull) => compiled = NonNull(List(NonNull(T)))
  /\ (r.list /\ ~r.nonNullItems /\ r.nonNull) => compiled = NonNull(List(T))
  /\ (r.list /\ r.nonNullItems /\ ~r.nonNull) => compiled = List(NonNull(T))
  /\ (~r.list /\ ~r.nonNullItems /\ ~r.nonNull) => compiled = T

FieldObeysLaw(typeName, r) ==
  ObeysWrappingLaw(r, converter(types, enums, Get(types, typeName).kind = "input", r.type).node,
                   Get(CompiledFields(typeName), r.name).type)

OperationObeysLaw(root, op) ==
  op.v.type.k = "fieldinfo" =>
    ObeysWrappingLaw(op.v.type, convertOutputType(types, enums, op.v.type.type).node,
                     Get(CompiledFields(root), op.k).type)

(***************************************************************************)
(* C7: in the schema build() returns, a field or operation record with     *)
(* base type T compiles to NonNull(List(NonNull(T))) under list,           *)
(* nonNullItems and nonNull; to NonNull(List(T))) under list and nonNull;   *)
(* to List(NonNull(T)) under list and nonNullItems; and to T under no      *)
(* modifier.                                                               *)
(***************************************************************************)
C7_WrappingLaw ==
  Returned =>
    /\ \A i \in 1..Len(types) :
         HasKey(result.types, types[i].k) =>
           \A j \in 1..Len(types[i].v.fields) :
             types[i].v.fields[j].v.hasType =>
               FieldObeysLaw(types[i].k, types[i].v.fields[j].v)
    /\ \A i \in 1..Len(types) :
         /\ \A j \in 1..Len(types[i].v.queries) :
              OperationObeysLaw("Query", types[i].v.queries[j])
         /\ \A j \in 1..Len(types[i].v.mutations) :
              OperationObeysLaw("Mutation", types[i].v.mutations[j])
         /\ \A j \in 1..Len(types[i].v.subscriptions) :
              OperationObeysLaw("Subscriptions", types[i].v.subscriptions[j])

\* A list field with non-null items and an operation under all three modifiers.
C7_Witness ==
  /\ Returned /\ HasKey(result.types, "A") /\ HasKey(OwnFields("A"), "f")
  /\ LET f == FieldOf(types, "A", "f") IN f.list /\ f.nonNullItems /\ ~f.nonNull
  /\ Get(CompiledFields("A"), "f").type = List(NonNull(GraphQLString))
  /\ Get(CompiledFields("Query"), "q").type = NonNull(List(NonNull(Named("object", "A"))))

(***************************************************************************)
(* SpecEnum: the enum object E1 (members a, b, c, d) decorated with a      *)
(* values map naming a and b, the enum object E2 (three members) decorated *)
(* with a name only, and fields and arguments of both enum types.          *)
(***************************************************************************)
Whitelist ==
  EnumValues(<<[k |-> "a", v |-> ValueText("first", Undefined)],
               [k |-> "b", v |-> ValueText(Undefined, "old")]>>)

EnumArg(e) == SomeArgs(<<[k |-> "x", v |-> [type |-> RefEnum(e)]]>>)

NextEnum ==
  \/ decorateEnum("E1", "Role", "roles", Whitelist)
  \/ \E name \in {"Case", " E", " "} : decorateEnum("E2", name, Undefined, NoEnumValues)
  \/ type("A", NoClassArguments)
  \/ field("A", FALSE, "role", RefEnum("E1"), NoFieldArguments)
  \/ field("A", FALSE, "case", RefEnum("E2"), FieldArguments(EnumArg("E2")))
  \/ query("A", TRUE, "q", RefThunk("A"), Undefined, EnumArg("E1"))
  \/ build

SpecEnum == Init /\ [][NextEnum]_vars

\* The values of the compiled enum type `name`: a hash name -> [value, ...].
CompiledValues(name) == Get(result.types, name).values.values

(***************************************************************************)
(* C8 (as claimed): when decorateEnum is called with a values map, only    *)
(* the members named in that map are exposed in the compiled enum: E1 with *)
(* four members of which a and b are named gives an enum of exactly a, b.  *)
(* The code registers every member of the enum object first, so the        *)
(* compiled enum has a, b, c and d.                                        *)
(***************************************************************************)
C8_OnlyWhitelistedValues ==
  (Returned /\ HasKey(result.types, "Role")) =>
    Keys(CompiledValues("Role")) = Keys(Whitelist.map)

(***************************************************************************)
(* C9: an enum object decorated with a name only is registered and exposes *)
(* all its members, each mapped to the member's own underlying value, and  *)
(* a field or argument of that enum type compiles to the enum.             *)
(***************************************************************************)
C9_NameOnlyExposesAllMembers ==
  hasEnum(enums, "E2") =>
    LET name == Get(enums, "E2").name
    IN /\ Len(Get(enums, "E2").values) = Len(EnumMembers("E2"))
       /\ (Returned /\ HasKey(types, "A") /\ HasKey(Get(types, "A").fields, "case")
             /\ HasKey(result.types, "A"))
            => /\ HasKey(result.types, name)
               /\ Len(CompiledValues(name)) = Len(EnumMembers("E2"))
               /\ \A i \in 1..Len(EnumMembers("E2")) :
                    /\ HasKey(CompiledValues(name), EnumMembers("E2")[i].k)
                    /\ Get(CompiledValues(name), EnumMembers("E2")[i].k).value
                         = EnumMembers("E2")[i].v
               /\ Get(CompiledFields("A"), "case").type = Named("enum", name)
               /\ Get(Get(CompiledFields("A"), "case").args.args, "x").type
                    = Named("enum", name)

\* E2 decorated as "Case", compiled with its three members.
C9_Witness ==
  /\ Returned /\ hasEnum(enums, "E2") /\ HasKey(result.types, "Case")
  /\ Get(CompiledValues("Case"), "Lower").value = "lower"
  /\ Get(CompiledFields("A"), "case").type = Named("enum", "Case")

(***************************************************************************)
(* SpecOrder: a fixed set of declarations, no two of which write the same  *)
(* attribute of the same record, applied in every order: an input class A  *)
(* with a field, a type B with a field of an enum type named by string, an *)
(* operation returning B by thunk and an operation taking an A.            *)
(***************************************************************************)
Declaration(op, c, member, ref, args) ==
  [op |-> op, c |-> c, member |-> member, ref |-> ref, args |-> args]

NoRef == RefName(Undefined)

OrderDeclarations ==
  {Declaration("input", "A", Undefined, NoRef, NoArgs),
   Declaration("field", "A", "f", RefDirect(GraphQLString), StringArg),
   Declaration("mutation", "A", "m", RefDirect(GraphQLBoolean),
               SomeArgs(<<[k |-> "x", v |-> [type |-> RefThunk("A")]]>>)),
   Declaration("type", "B", Undefined, NoRef, NoArgs),
   Declaration("field", "B", "e", RefName("Case"), NoArgs),
   Declaration("query", "B", "q", RefThunk("B"), NoArgs),
   Declaration("decorateEnum", "E2", "Case", NoRef, NoArgs)}

FieldArgumentsOf(d) == IF d.args.set THEN FieldArguments(d.args) ELSE NoFieldArguments

NextOrder ==
  \/ \E d \in OrderDeclarations : d.op = "input" /\ input(d.c, NoClassArguments)
  \/ \E d \in OrderDeclarations : d.op = "type" /\ type(d.c, NoClassArguments)
  \/ \E d \in OrderDeclarations :
       d.op = "field" /\ field(d.c, FALSE, d.member, d.ref, FieldArgumentsOf(d))
  \/ \E d \in OrderDeclarations :
       d.op = "query" /\ query(d.c, TRUE, d.member, d.ref, Undefined, d.args)
  \/ \E d \in OrderDeclarations :
       d.op = "mutation" /\ mutation(d.c, TRUE, d.member, d.ref, Undefined, d.args)
  \/ \E d \in OrderDeclarations :
       d.op = "decorateEnum" /\ decorateEnum(d.c, d.member, Undefined, NoEnumValues)
  \/ build

SpecOrder == Init /\ [][NextOrder]_vars

\* The registry after the declaration d, as the actions of NextOrder apply it.
AfterDeclaration(reg, d) ==
  CASE d.op = "input" -> Registry(inputApplied(reg.types, d.c, NoClassArguments), reg.enums)
    [] d.op = "type" -> Registry(typeApplied(reg.types, d.c, NoClassArguments), reg.enums)
    [] d.op = "field" ->
         Registry(fieldApplied(reg.types, d.c, FALSE, d.member, d.ref, FieldArgumentsOf(d)),
                  reg.enums)
    [] d.op = "query" ->
         Registry(queryApplied(reg.types, d.c, TRUE, d.member, d.ref, Undefined, d.args),
                  reg.enums)
    [] d.op = "mutation" ->
         Registry(mutationApplied(reg.types, d.c, TRUE, d.member, d.ref, Undefined, d.args),
                  reg.enums)
    [] d.op = "decorateEnum" ->
         Registry(reg.types,
                  decorateEnumApplied(reg.enums, d.c, d.member, Undefined, NoEnumValues))

Unordered(h) == {h[i] : i \in 1..Len(h)}

UnorderedType(t) ==
  [node |-> t.node, description |-> t.description, fields |-> Unordered(t.fields),
   interfaces |-> Unordered(t.interfaces), values |-> Unordered(t.values.values)]

\* A build outcome up to the order of types, fields, operations and values;
\* every thrown error counts as the same outcome.
UpToOrder(r) ==
  IF r.kind = "schema"
    THEN [kind |-> "schema", query |-> r.query, mutation |-> r.mutation,
          subscription |-> r.subscription,
          types |-> {[k |-> r.types[i].k, v |-> UnorderedType(r.types[i].v)] :
                       i \in 1..Len(r.types)}]
    ELSE [kind |-> "error", query |-> Null, mutation |-> Null, subscription |-> Null,
          types |-> {}]

Compiled(reg) == UpToOrder(BuildResult(reg.types, reg.enums))

Pending(reg, d) == AfterDeclaration(reg, d) # reg

(***************************************************************************)
(* C3 (as claimed): for a fixed set of type, field, enum and operation     *)
(* annotation applications, every order of applying them before build()    *)
(* yields the same compiled schema: from any registry, two declarations    *)
(* still to be made give the same build outcome in either order.  The code *)
(* stores the args of a field annotation only when the class is not yet of *)
(* kind 'input', so input(A) before field(A.f, args) compiles f without    *)
(* args and the opposite order compiles it with them.                      *)
(***************************************************************************)
C3_OrderIndependent ==
  \A d1, d2 \in OrderDeclarations :
    (Pending(Registry(types, enums), d1) /\ Pending(Registry(types, enums), d2))
      => Compiled(AfterDeclaration(AfterDeclaration(Registry(types, enums), d1), d2))
           = Compiled(AfterDeclaration(AfterDeclaration(Registry(types, enums), d2), d1))

(***************************************************************************)
(* SpecHoist: operations declared on instance and static methods of the    *)
(* annotated class A and of the classes B and C, which carry no class      *)
(* annotation; A and B both declare a query named qa.                      *)
(***************************************************************************)
NextHoist ==
  \/ type("A", NoClassArguments)
  \/ query("A", FALSE, "qa", RefDirect(GraphQLString), Undefined, NoArgs)
  \/ \E m \in {"qa", "qb"} : query("B", FALSE, m, RefDirect(GraphQLBoolean), Undefined, NoArgs)
  \/ query("C", TRUE, "qs", RefThunk("A"), Undefined, NoArgs)
  \/ mutation("A", FALSE, "ma", RefDirect(GraphQLBoolean), Undefined, StringArg)
  \/ mutation("B", TRUE, "mb", RefDirect(GraphQLBoolean), Undefined, NoArgs)
  \/ subscription("C", FALSE, "sc", RefDirect(GraphQLString), Undefined, NoArgs)
  \/ subscription("A", TRUE, "sa", RefDirect(GraphQLString), Undefined, NoArgs)
  \/ build

SpecHoist == Init /\ [][NextHoist]_vars

\* The names registered in the map `which` of any TypeRecord.
RegisteredOperations(which) ==
  UNION {Keys(types[i].v[which]) : i \in 1..Len(types)}

\* The field names of the root type `name`; none when the schema has no such root.
RootFieldNames(name) ==
  IF HasKey(result.types, name) THEN Keys(CompiledFields(name)) ELSE {}

(***************************************************************************)
(* C11: in the schema build() returns, the field names of the Query root   *)
(* are exactly the query names registered on all TypeRecords, and likewise *)
(* the Mutation root for mutations and the Subscriptions root for          *)
(* subscriptions, whichever class declares them and whether or not that    *)
(* class has a class-level annotation.                                     *)
(***************************************************************************)
C11_OperationHoisting ==
  Returned =>
    /\ HasKey(result.types, "Query")
    /\ RootFieldNames("Query") = RegisteredOperations("queries")
    /\ RootFieldNames("Mutation") = RegisteredOperations("mutations")
    /\ RootFieldNames("Subscriptions") = RegisteredOperations("subscriptions")

\* Operations of A, of the unannotated B and C, and of static methods, all hoisted.
C11_Witness ==
  /\ Returned
  /\ findByClass(types, "A").found /\ ~findByClass(types, "B").found
  /\ RootFieldNames("Query") = {"qa", "qb", "qs"}
  /\ RootFieldNames("Mutation") = {"ma", "mb"}
  /\ RootFieldNames("Subscriptions") = {"sc", "sa"}

(***************************************************************************)
(* SpecDecorate: the enum object E1 decorated with name, description and   *)
(* values, decorated again with the name only, and decorated with a        *)
(* missing, empty or blank name; E2 decorated with a padded name.          *)
(***************************************************************************)
BadNames == {Undefined, "", " "}

NextDecorate ==
  \/ decorateEnum("E1", "Role", "roles", Whitelist)
  \/ decorateEnum("E1", "Role", Undefined, NoEnumValues)
  \/ \E name \in BadNames : decorateEnum("E1", name, "roles", Whitelist)
  \/ decorateEnum("E2", " E", Undefined, NoEnumValues)
  \/ type("A", NoClassArguments)
  \/ field("A", FALSE, "role", RefEnum("E1"), NoFieldArguments)
  \/ query("A", TRUE, "q", RefThunk("A"), Undefined, NoArgs)
  \/ build

SpecDecorate == Init /\ [][NextDecorate]_vars

(***************************************************************************)
(* C12: decorateEnum with a name that is missing, empty or only whitespace *)
(* throws "Invalid name specified for enum '<name>'" at the call and       *)
(* leaves the registry as it was: no EnumRecord is created or changed.     *)
(***************************************************************************)
C12_InvalidNameThrows ==
  [][\A name \in BadNames :
       decorateEnum("E1", name, "roles", Whitelist)
         => /\ result' = Thrown(InvalidEnumName(name))
            /\ result'.err.msg = "Invalid name specified for enum"
            /\ enums' = enums
            /\ types' = types]_vars

\* The call with a blank name has thrown and E1 has no record.
C12_Witness ==
  /\ result = Thrown(InvalidEnumName(" "))
  /\ ~hasEnum(enums, "E1")
  /\ hasEnum(enums, "E2")

(***************************************************************************)
(* C13 (as claimed): a second decorateEnum call on a registered enum that  *)
(* gives only the name leaves the EnumRecord as the first call set it: its *)
(* description and every value's description and deprecation reason.  The  *)
(* code assigns info.description = args.description on every call, so the  *)
(* description becomes undefined.                                          *)
(***************************************************************************)
C13_NameOnlyRedecorationIgnored ==
  [][(hasEnum(enums, "E1") /\ decorateEnum("E1", "Role", Undefined, NoEnumValues))
       => Get(enums', "E1") = Get(enums, "E1")]_vars

(***************************************************************************)
(* SpecField: the six property annotations on the property f of class A,   *)
(* which is declared a type or an input at any point.                      *)
(***************************************************************************)
PropertyAnnotation(op, ref, fargs, text) ==
  [op |-> op, ref |-> ref, fargs |-> fargs, text |-> text]

PropertyAnnotations ==
  {PropertyAnnotation("field", RefDirect(GraphQLString), NoFieldArguments, Undefined),
   PropertyAnnotation("field", RefDirect(GraphQLBoolean), FieldArguments(StringArg), Undefined),
   PropertyAnnotation("list", RefDirect(GraphQLString), FieldArguments(InputArg), Undefined),
   PropertyAnnotation("list", RefDirect(GraphQLBoolean), NoFieldArguments, Undefined),
   PropertyAnnotation("description", NoRef, NoFieldArguments, "text"),
   PropertyAnnotation("resolve", NoRef, NoFieldArguments, "resolver"),
   PropertyAnnotation("nonNull", NoRef, NoFieldArguments, Undefined),
   PropertyAnnotation("nonNullItems", NoRef, NoFieldArguments, Undefined)}

NextField ==
  \/ type("A", NoClassArguments)
  \/ input("A", NoClassArguments)
  \/ \E a \in PropertyAnnotations : a.op = "field" /\ field("A", FALSE, "f", a.ref, a.fargs)
  \/ \E a \in PropertyAnnotations : a.op = "list" /\ list("A", FALSE, "f", a.ref, a.fargs)
  \/ \E a \in PropertyAnnotations :
       a.op = "description" /\ description("A", FALSE, "f", a.text)
  \/ \E a \in PropertyAnnotations : a.op = "resolve" /\ resolve("A", FALSE, "f", a.text)
  \/ \E a \in PropertyAnnotations : a.op = "nonNull" /\ nonNull("A", FALSE, "f")
  \/ \E a \in PropertyAnnotations : a.op = "nonNullItems" /\ nonNullItems("A", FALSE, "f")

SpecField == Init /\ [][NextField]_vars

\* The registry after the property annotation a, as the actions of NextField apply it.
AfterAnnotation(ts, a) ==
  CASE a.op = "field" -> fieldApplied(ts, "A", FALSE, "f", a.ref, a.fargs)
    [] a.op = "list" -> listApplied(ts, "A", FALSE, "f", a.ref, a.fargs)
    [] a.op = "description" -> descriptionApplied(ts, "A", FALSE, "f", a.text)
    [] a.op = "resolve" -> resolveApplied(ts, "A", FALSE, "f", a.text)
    [] a.op = "nonNull" -> nonNullApplied(ts, "A", FALSE, "f")
    [] a.op = "nonNullItems" -> nonNullItemsApplied(ts, "A", FALSE, "f")

\* The FieldRecord of A.f is the same after a then b as after b then a.
Commute(a, b) ==
  FieldOf(AfterAnnotation(AfterAnnotation(types, a), b), "A", "f")
    = FieldOf(AfterAnnotation(AfterAnnotation(types, b), a), "A", "f")

\* field and list both assign the record's type, and its args when given an
\* args option.
WriteSameAttribute(a, b) ==
  /\ {a.op, b.op} = {"field", "list"}
  /\ (a.ref # b.ref \/ (a.fargs.given /\ b.fargs.given))

OutputRefs ==
  {RefName("A"), RefThunk("A"), RefName("B"), RefEnum("E2"), RefName("Case"), RefName("Unknown")}

InputRefs == {RefName("A"), RefThunk("A"), RefEnum("E2"), RefName("Case")}

DescribedType == ClassArguments("a type", NoInterfaces)

NextResolve ==
  \/ type("A", DescribedType)
  \/ interface("A", NoClassArguments)
  \/ input("A", NoClassArguments)
  \/ scalar("A")
  \/ type("B", NoClassArguments)
  \/ \E name \in {"Case", "A"} : decorateEnum("E2", name, Undefined, NoEnumValues)
  \/ \E ref \in OutputRefs : field("B", FALSE, "f", ref, NoFieldArguments)
  \/ \E ref \in InputRefs :
       mutation("B", TRUE, "m", RefDirect(GraphQLBoolean), Undefined,
                SomeArgs(<<[k |-> "x", v |-> [type |-> ref]]>>))
  \/ query("B", TRUE, "q", RefThunk("B"), Undefined, NoArgs)
  \/ build

SpecResolve == Init /\ [][NextResolve]_vars

KindOf(name) == IF HasKey(types, name) THEN Get(types, name).kind ELSE NoKind

\* The node a TypeRecord of the given kind is materialized as.
NodeOfKind(kind, name) ==
  CASE kind = "type" -> Named("object", name)
    [] kind = "interface" -> Named("interface", name)
    [] kind = "input" -> Named("input", name)
    [] kind = "scalar" -> Named("scalar", name)
    [] OTHER -> UndefinedNode

\* The type of the argument x of the mutation m in the returned schema.
CompiledArgument == Get(Get(CompiledFields("Mutation"), "m").args.args, "x").type

(***************************************************************************)
(* C15: when more than one of type, interface, input and scalar is applied *)
(* to the same class, the TypeRecord's kind after each application is the  *)
(* kind of the annotation just applied, and a schema build() returns holds *)
(* the class as a node of the kind on record and of no other kind.         *)
(***************************************************************************)
C15_LastKindWins ==
  /\ [][/\ type("A", DescribedType) => KindOf("A")' = "type"
        /\ interface("A", NoClassArguments) => KindOf("A")' = "interface"
        /\ input("A", NoClassArguments) => KindOf("A")' = "input"
        /\ scalar("A") => KindOf("A")' = "scalar"]_vars
  /\ [](Returned =>
          \A i \in 1..Len(result.types) :
            (result.types[i].k = "A" /\ result.types[i].v.node.kind # "enum")
              => /\ result.types[i].v.node = NodeOfKind(KindOf("A"), "A")
                 /\ \A j \in 1..Len(result.types) : result.types[j].k = "A" => j = i)

\* A was declared a type (its description remains) and then an input, and is
\* compiled as an input only.
C15_Witness ==
  /\ Returned /\ KindOf("A") = "input" /\ HasKey(result.types, "A")
  /\ Get(types, "A").description = "a type"
  /\ Get(result.types, "A").node = Named("input", "A")
  /\ CompiledArgument = Named("input", "A")

\* The names references are made by in SpecResolve.
ReferencedNames == {"A", "B", "Case", "Unknown"}

\* Both converters give the same outcome for the two references.
SameOutput(ref1, ref2) ==
  convertOutputType(types, enums, ref1) = convertOutputType(types, enums, ref2)

SameInput(ref1, ref2) ==
  convertInputType(types, enums, ref1) = convertInputType(types, enums, ref2)

(***************************************************************************)
(* C16: a reference to a declared type, input, scalar or enum resolves to  *)
(* the same materialized node whether it is given as the name string, as a *)
(* thunk returning the class, or as the enum identity, in output position  *)
(* and in argument position.                                               *)
(***************************************************************************)
C16_ReferenceFormsEquivalent ==
  /\ \A c \in {"A", "B"} :
       /\ KindOf(c) \in {"type", "interface", "scalar"}
            => /\ SameOutput(RefThunk(c), RefName(ClassName(c)))
               /\ convertOutputType(types, enums, RefThunk(c)).ok
               /\ convertOutputType(types, enums, RefThunk(c)).node.k = "named"
       /\ KindOf(c) \in {"input", "scalar"}
            => /\ SameInput(RefThunk(c), RefName(ClassName(c)))
               /\ convertInputType(types, enums, RefThunk(c)).node.k = "named"
  /\ \A e \in EnumObjects :
       hasEnum(enums, e)
         => /\ SameOutput(RefEnum(e), RefName(Get(enums, e).name))
            /\ SameInput(RefEnum(e), RefName(Get(enums, e).name))
            /\ convertOutputType(types, enums, RefEnum(e)).node
                 = Named("enum", Get(enums, e).name)
            /\ convertInputType(types, enums, RefEnum(e)).node
                 = Named("enum", Get(enums, e).name)

\* The enum E2 named "Case" referred to by identity in a field and by name in
\* an argument, and the scalar A by thunk: compiled to the nodes of those names.
C16_Witness ==
  /\ Returned /\ hasEnum(enums, "E2") /\ KindOf("A") = "scalar"
  /\ HasKey(result.types, "B") /\ HasKey(result.types, "Mutation")
  /\ HasKey(OwnFields("B"), "f") /\ FieldOf(types, "B", "f").type = RefEnum("E2")
  /\ Get(CompiledFields("B"), "f").type = Named("enum", "Case")
  /\ CompiledArgument = Named("enum", "Case")
  /\ SameInput(RefThunk("A"), RefName("A"))
  /\ convertInputType(types, enums, RefThunk("A")).node = Named("scalar", "A")

\* The outcome the resolution order enum, interface, scalar, object type gives
\* a name in output position, with an error for a name that matches none.
OutputResolution(name) ==
  IF \E i \in 1..Len(enums) : enums[i].v.name = name THEN Ok(Named("enum", name))
  ELSE IF KindOf(name) = "interface" THEN Ok(Named("interface", name))
  ELSE IF KindOf(name) = "scalar" THEN Ok(Named("scalar", name))
  ELSE IF KindOf(name) = "type" THEN Ok(Named("object", name))
  ELSE Fail(TypeNotDefined(name))

(***************************************************************************)
(* C19 (as claimed): in output position a name, given as a string or as    *)
(* the class name a thunk returns, resolves to the first match in the      *)
(* order enum, interface, scalar, object type, and raises "Type '<name>'   *)
(* not defined" for every name that matches none, such as a name on record *)
(* only as an input or without a class-level annotation.  The code raises  *)
(* only for a name with no TypeRecord at all and otherwise returns         *)
(* objects[name], which is undefined for those names.                      *)
(***************************************************************************)
C19_OutputResolutionOrder ==
  /\ \A name \in ReferencedNames :
       convertOutputType(types, enums, RefName(name)) = OutputResolution(name)
  /\ \A c \in {"A", "B"} :
       convertOutputType(types, enums, RefThunk(c)) = OutputResolution(ClassName(c))

\* The outcome the resolution order enum, scalar, input gives a name in
\* argument position: undefined, and no error, for a name that matches none.
InputResolution(name) ==
  IF \E i \in 1..Len(enums) : enums[i].v.name = name THEN Ok(Named("enum", name))
  ELSE IF KindOf(name) = "scalar" THEN Ok(Named("scalar", name))
  ELSE IF KindOf(name) = "input" THEN Ok(Named("input", name))
  ELSE Ok(UndefinedNode)

(***************************************************************************)
(* C20: in argument position a name resolves to the first match in the     *)
(* order enum, scalar, input type and to nothing else: the name of an      *)
(* object or interface type, or a name not materialized as an input,       *)
(* yields undefined, and resolution raises no error.                       *)
(***************************************************************************)
C20_InputResolutionOrder ==
  /\ \A name \in ReferencedNames :
       convertInputType(types, enums, RefName(name)) = InputResolution(name)
  /\ \A c \in {"A", "B"} :
       convertInputType(types, enums, RefThunk(c)) = InputResolution(ClassName(c))

\* An argument of the object type A: its compiled type is undefined and build()
\* returned; an unregistered name converts to undefined too.
C20_Witness ==
  /\ Returned /\ KindOf("A") = "type" /\ HasKey(result.types, "Mutation")
  /\ Get(Get(types, "Function").mutations, "m").config.args.args[1].v.type = RefName("A")
  /\ CompiledArgument = UndefinedNode
  /\ convertInputType(types, enums, RefName("Unknown")) = Ok(UndefinedNode)

(***************************************************************************)
(* SpecNames: names that meet: the enum E2 named like the interface A,     *)
(* like the Query root or like the enum E1, and a type object named B that *)
(* the caller supplies next to the class B.                                *)
(***************************************************************************)
ImplementsA == ClassArguments(Undefined, SomeInterfaces(<<RefName("A")>>))

\* A GraphQL type object of the caller's own, named B.
CallersB == Named("custom", "B")

NameRefs ==
  {RefName("A"), RefEnum("E1"), RefEnum("E2"), RefThunk("B"), RefDirect(CallersB)}

NextNames ==
  \/ interface("A", NoClassArguments)
  \/ type("B", ImplementsA)
  \/ decorateEnum("E1", "Case", Undefined, NoEnumValues)
  \/ \E name \in {"A", "Query", "Case"} : decorateEnum("E2", name, Undefined, NoEnumValues)
  \/ \E ref \in NameRefs : field("B", FALSE, "f", ref, NoFieldArguments)
  \/ field("A", FALSE, "g", RefDirect(GraphQLString), NoFieldArguments)
  \/ query("B", TRUE, "q", RefThunk("B"), Undefined, NoArgs)
  \/ build

SpecNames == Init /\ [][NextNames]_vars

RECURSIVE NamedTypeOf(_)
\* The named type under the list and non-null wrappers.
NamedTypeOf(node) == IF node.k \in {"nonnull", "list"} THEN NamedTypeOf(node.of) ELSE node

\* The nodes a collected type refers to: its interfaces, and the types of its
\* fields and of their arguments.
ReferredNodes(t) ==
  LET refs == t.interfaces \o FieldTypes(t.fields, t.node.kind # "input")
  IN {NamedTypeOf(refs[i]) : i \in 1..Len(refs)} \ {UndefinedNode}

OnThisBuilder ==
  \/ type("A", NoClassArguments)
  \/ field("A", FALSE, "f", RefDirect(GraphQLString), NoFieldArguments)
  \/ query("A", TRUE, "q", RefThunk("A"), Undefined, NoArgs)
  \/ \E name \in {"Case", " "} : decorateEnum("E2", name, Undefined, NoEnumValues)
  \/ build

NextIsolation ==
  \/ OnThisBuilder
  \/ useOtherBuilder

SpecIsolation == Init /\ [][NextIsolation]_vars

(***************************************************************************)
(* C17: builder instances are isolated: an annotation, a decorateEnum call *)
(* or a build() on one SchemaBuilder leaves the registry of the other      *)
(* SchemaBuilder unchanged, and with it what its build() yields.           *)
(***************************************************************************)
C17_BuildersIsolated ==
  [][OnThisBuilder =>
       /\ otherBuilder' = otherBuilder
       /\ BuildResult(otherBuilder'.types, otherBuilder'.enums)
            = BuildResult(otherBuilder.types, otherBuilder.enums)]_vars

\* Two builders with different registries, the one in use built into a
\* schema that the other's registry would not give.
C17_Witness ==
  /\ Returned
  /\ otherBuilder.types # EmptyHash /\ otherBuilder.enums # EmptyHash
  /\ types # otherBuilder.types /\ enums # otherBuilder.enums
  /\ BuildResult(otherBuilder.types, otherBuilder.enums) # result

\* The map `which` of the TypeRecord named `name` in the registry ts holds the key m.
HoldsOperation(ts, name, which, m) == HasKey(ts, name) /\ HasKey(Get(ts, name)[which], m)

(***************************************************************************)
(* C21 (as claimed): a query, mutation or subscription annotation on a     *)
(* static method m of class C stores the OperationRecord under key m in    *)
(* the matching map of the TypeRecord named after C, so operations of      *)
(* different classes live in different TypeRecords.  The decorator of a    *)
(* static method receives the class itself, whose constructor.name is      *)
(* "Function": the record is stored in the TypeRecord named "Function",    *)
(* for every class.                                                        *)
(***************************************************************************)
C21_StaticOperationOnDeclaringClass ==
  [][/\ query("C", TRUE, "qs", RefThunk("A"), Undefined, NoArgs)
          => HoldsOperation(types', ClassName("C"), "queries", "qs")
     /\ mutation("B", TRUE, "mb", RefDirect(GraphQLBoolean), Undefined, NoArgs)
          => HoldsOperation(types', ClassName("B"), "mutations", "mb")
     /\ subscription("A", TRUE, "sa", RefDirect(GraphQLString), Undefined, NoArgs)
          => HoldsOperation(types', ClassName("A"), "subscriptions", "sa")]_vars

(***************************************************************************)
(* SpecForward: the interface A, the types B and C that implement it, and  *)
(* fields and a query that refer to A, B and C by name and by thunk; the   *)
(* annotations come in any order, so any record may be registered after    *)
(* the records that refer to it.                                           *)
(***************************************************************************)
ImplementsClassA == ClassArguments(Undefined, SomeInterfaces(<<RefClass("A")>>))

NextForward ==
  \/ interface("A", NoClassArguments)
  \/ type("B", ImplementsA)
  \/ type("C", ImplementsClassA)
  \/ field("A", FALSE, "g", RefDirect(GraphQLString), NoFieldArguments)
  \/ \E ref \in {RefName("A"), RefThunk("C")} : field("B", FALSE, "f", ref, NoFieldArguments)
  \/ field("C", FALSE, "h", RefThunk("B"), NoFieldArguments)
  \/ \E ret \in {RefThunk("B"), RefName("C")} : query("C", TRUE, "q", ret, Undefined, NoArgs)
  \/ build

SpecForward == Init /\ [][NextForward]_vars

\* The place of the TypeRecord named `name` in the registry's insertion order.
Position(name) == CHOOSE i \in 1..Len(types) : types[i].k = name

AllDeclared == KindOf("A") = "interface" /\ KindOf("B") = "type" /\ KindOf("C") = "type"

\* The reference, held by the record at place i, is to a record registered later.
Forward(i, ref) == ByName(ref) /\ Position(ReferredName(ref)) > i

InterfaceName(ref) == IF ref.k = "class" THEN ClassName(ref.cls) ELSE ref.name

ForwardFieldsResolve(i) ==
  \A j \in 1..Len(types[i].v.fields) :
    LET f == types[i].v.fields[j].v
    IN (f.hasType /\ Forward(i, f.type))
         => Get(CompiledFields(types[i].k), f.name).type
              = NodeOfKind(KindOf(ReferredName(f.type)), ReferredName(f.type))

ForwardInterfacesResolve(i) ==
  \A j \in 1..Len(types[i].v.interfaces.list) :
    Position(InterfaceName(types[i].v.interfaces.list[j])) > i
      => Get(result.types, types[i].k).interfaces[j]
           = Named("interface", InterfaceName(types[i].v.interfaces.list[j]))

ForwardReturnsResolve(i) ==
  \A j \in 1..Len(types[i].v.queries) :
    LET q == types[i].v.queries[j]
    IN Forward(i, q.v.type)
         => Get(CompiledFields("Query"), q.k).type
              = NodeOfKind(KindOf(ReferredName(q.v.type)), ReferredName(q.v.type))

(***************************************************************************)
(* C22: forward references resolve: once A, B and C are declared, build()  *)
(* returns a schema in which every field type, operation return type and   *)
(* declared-interface entry that refers by name or thunk to a TypeRecord   *)
(* registered later than the referring record is that record's node.       *)
(***************************************************************************)
C22_ForwardReferencesResolve ==
  (Built /\ AllDeclared) =>
    /\ Returned
    /\ \A i \in 1..Len(types) :
         /\ ForwardReturnsResolve(i)
         /\ HasKey(result.types, types[i].k)
              => (ForwardFieldsResolve(i) /\ ForwardInterfacesResolve(i))

\* The query was registered before B, B's field before C, and B before the
\* interface A it implements; all three resolved.
C22_Witness ==
  /\ Returned /\ AllDeclared /\ HasKey(types, "Function") /\ HasKey(result.types, "B")
  /\ Position("Function") < Position("B") /\ Position("B") < Position("C")
  /\ Position("B") < Position("A")
  /\ Get(CompiledFields("Query"), "q").type = Named("object", "B")
  /\ HasKey(OwnFields("B"), "f")
  /\ Get(CompiledFields("B"), "f").type = Named("object", "C")
  /\ Get(result.types, "B").interfaces = <<Named("interface", "A")>>

(***************************************************************************)
(* SpecInput: the input class B, which extends the type A; properties of   *)
(* both carry a resolve annotation, and B's field is given an args option  *)
(* before or after B is declared an input.                                 *)
(***************************************************************************)
TakesB == SomeArgs(<<[k |-> "x", v |-> [type |-> RefThunk("B")]]>>)

NextInput ==
  \/ type("A", NoClassArguments)
  \/ input("B", NoClassArguments)
  \/ field("A", FALSE, "f", RefDirect(GraphQLString), NoFieldArguments)
  \/ field("B", FALSE, "g", RefDirect(GraphQLString), FieldArguments(StringArg))
  \/ \E c \in {"A", "B"} : resolve(c, FALSE, IF c = "A" THEN "f" ELSE "g", "resolver")
  \/ mutation("B", TRUE, "m", RefDirect(GraphQLBoolean), Undefined, TakesB)
  \/ build

SpecInput == Init /\ [][NextInput]_vars

(***************************************************************************)
(* C23: no field of a compiled input type carries a resolver, even when a  *)
(* resolve annotation was applied to the property or the field is          *)
(* inherited from an ancestor of another kind.                             *)
(***************************************************************************)
C23_InputFieldsHaveNoResolver ==
  Returned =>
    \A i \in 1..Len(result.types) :
      result.types[i].v.node = Named("input", result.types[i].k) =>
        \A j \in 1..Len(result.types[i].v.fields) :
          /\ ~result.types[i].v.fields[j].v.hasResolve
          /\ result.types[i].v.fields[j].v.resolve = Undefined

\* The input B compiled with its own g and the inherited f of the type A,
\* both of which have a resolver on record.
C23_Witness ==
  /\ Returned /\ HasKey(result.types, "B") /\ KindOf("B") = "input" /\ KindOf("A") = "type"
  /\ HasKey(OwnFields("A"), "f") /\ HasKey(OwnFields("B"), "g")
  /\ FieldOf(types, "A", "f").resolver = "resolver"
  /\ FieldOf(types, "B", "g").resolver = "resolver"
  /\ Keys(CompiledFields("B")) = {"f", "g"}

(***************************************************************************)
(* C29 (as claimed): a field annotation given an args option on a property *)
(* of an input class stores no args on the FieldRecord, whether input is   *)
(* applied before or after the field annotation, so no field of a compiled *)
(* input type has args.  field() reads the kind when it runs: applied      *)
(* before input(), it stores the args, and they are compiled into the      *)
(* input type's field.                                                     *)
(***************************************************************************)
C29_InputFieldsHaveNoArgs ==
  KindOf("B") = "input" =>
    /\ \A j \in 1..Len(OwnFields("B")) : ~OwnFields("B")[j].v.args.set
    /\ (Returned /\ HasKey(result.types, "B"))
         => \A j \in 1..Len(CompiledFields("B")) : ~CompiledFields("B")[j].v.args.set

(***************************************************************************)
(* SpecTree: getInheritanceTree called on every class, among annotations   *)
(* of the chain D extends B extends A and of E, whose superclass has no    *)
(* name, and builds.                                                       *)
(***************************************************************************)
NextTree ==
  \/ \E c \in Classes : inheritanceTree(c)
  \/ \E c \in {"A", "B", "D", "E"} : type(c, NoClassArguments)
  \/ field("A", FALSE, "f", RefDirect(GraphQLString), NoFieldArguments)
  \/ field("B", FALSE, "h", RefDirect(GraphQLString), NoFieldArguments)
  \/ field("D", FALSE, "f", RefDirect(GraphQLBoolean), NoFieldArguments)
  \/ \E ret \in {RefThunk("D"), RefThunk("E")} : query("D", TRUE, "q", ret, Undefined, NoArgs)
  \/ build

SpecTree == Init /\ [][NextTree]_vars

HasNoNamedParent(c) == ClassParent(c) = NoClass \/ ClassName(ClassParent(c)) = ""

\* chain starts at c, climbs one superclass at a time through named classes,
\* and ends at a class whose superclass is absent or has no name.
IsAncestorChain(c, chain) ==
  /\ Len(chain) >= 1
  /\ chain[1] = c
  /\ \A i \in 1..(Len(chain) - 1) :
       /\ chain[i + 1] = ClassParent(chain[i])
       /\ ClassName(chain[i + 1]) # ""
  /\ HasNoNamedParent(chain[Len(chain)])
  /\ ClassParent(c) = NoClass => chain = <<c>>

(***************************************************************************)
(* C24: getInheritanceTree(C) returns a chain whose first element is C,    *)
(* followed by C's ancestors nearest first, ending just before the first   *)
(* ancestor that has no name; for a class with no explicit superclass the  *)
(* chain is exactly [C]; the call changes no state.                        *)
(***************************************************************************)
C24_InheritanceTree ==
  /\ [](result.kind = "tree" => IsAncestorChain(result.of, result.chain))
  /\ [][result'.kind = "tree" => (types' = types /\ enums' = enums)]_vars

\* The chain of D on a registry that holds records: D, B, A.
C24_Witness ==
  /\ result = TreeOf("D", <<"D", "B", "A">>)
  /\ HasKey(types, "D") /\ HasKey(types, "A")

(***************************************************************************)
(* What the registry holds: names of TypeRecords, (type, field) keys,      *)
(* (type, operation map, operation) keys and enum identities.              *)
(***************************************************************************)
TypeNames(ts) == Keys(ts)

FieldKeys(ts) ==
  UNION {{<<ts[i].k, f>> : f \in Keys(ts[i].v.fields)} : i \in 1..Len(ts)}

OperationMaps == {"queries", "mutations", "subscriptions"}

OperationKeys(ts) ==
  UNION {{<<ts[i].k, which, m>> : m \in Keys(ts[i].v[which])} :
           i \in 1..Len(ts), which \in OperationMaps}

EnumIdentities(es) == Keys(es)

(***************************************************************************)
(* C25: registry growth is monotonic: under any sequence of annotation and *)
(* decorateEnum calls, the set of TypeRecord names, of (type name, field   *)
(* name) keys, of (type name, operation name) keys and of registered enum  *)
(* identities never loses an element.                                      *)
(***************************************************************************)
C25_RegistryGrowsMonotonically ==
  [][/\ TypeNames(types) \subseteq TypeNames(types')
     /\ FieldKeys(types) \subseteq FieldKeys(types')
     /\ OperationKeys(types) \subseteq OperationKeys(types')
     /\ EnumIdentities(enums) \subseteq EnumIdentities(enums')]_vars

\* Every kind of element is on record, and the records that hold the field
\* and the operations were touched again by class-level annotations.
C25_Witness ==
  /\ <<"B", "f">> \in FieldKeys(types)
  /\ <<"Function", "queries", "q">> \in OperationKeys(types)
  /\ <<"Function", "mutations", "m">> \in OperationKeys(types)
  /\ "E2" \in EnumIdentities(enums)
  /\ KindOf("B") = "type"
  /\ KindOf("A") = "scalar"

(***************************************************************************)
(* C26 (as claimed): after any sequence of decorateEnum calls, no two      *)
(* EnumRecords of the registry have the same name.  getOrAddEnum looks the *)
(* record up by the enum object only, so a second enum object decorated    *)
(* under a name in use gets a record of its own with that name.            *)
(***************************************************************************)
C26_EnumRecordNamesUnique ==
  \A i, j \in 1..Len(enums) : enums[i].v.name = enums[j].v.name => i = j

\* No non-null wrapper of `node` wraps a non-null wrapper directly.
RECURSIVE NoNonNullOfNonNull(_)
NoNonNullOfNonNull(node) ==
  IF node.k \in {"nonnull", "list"}
    THEN /\ ~(node.k = "nonnull" /\ node.of.k = "nonnull")
         /\ NoNonNullOfNonNull(node.of)
    ELSE TRUE

ClassAnnotated(c) == HasKey(types, ClassName(c)) /\ Get(types, ClassName(c)).target = c

\* The field names the ancestor A contributes to the compiled B.
ContributedByA == IF ClassAnnotated("A") THEN Keys(OwnFields("A")) ELSE {}

(***************************************************************************)
(* C28: an ancestor class contributes its declared fields to a             *)
(* descendant's compiled field set if and only if the ancestor itself      *)
(* carries a class-level annotation (its TypeRecord has the ancestor as    *)
(* owning class); fields declared on an ancestor that has only             *)
(* property-level annotations are not inherited.                           *)
(***************************************************************************)
C28_AncestorContributesIffAnnotated ==
  (Returned /\ HasKey(result.types, "B")) =>
    /\ Keys(CompiledFields("B")) = Keys(OwnFields("B")) \cup ContributedByA
    /\ \A p \in Keys(OwnFields("A")) \ Keys(OwnFields("B")) :
         HasKey(CompiledFields("B"), p) <=> ClassAnnotated("A")

\* A declares f and g by property-level annotations only; the compiled B has
\* its own h and nothing of A's.
C28_Witness ==
  /\ Returned /\ HasKey(result.types, "B")
  /\ Keys(OwnFields("A")) = {"f", "g"}
  /\ ~ClassAnnotated("A")
  /\ Keys(CompiledFields("B")) = {"h"}

====
